---- MODULE Spec2Model ----
(***************************************************************************)
(* Vocabulary Store of MandarinReader (shared/storage.ts) and the service  *)
(* worker calls that drive it.  A device's IndexedDB 'vocabulary' store is *)
(* a map id -> VocabularyEntry; chrome.storage.sync['vocab_sync'] is one   *)
(* map id -> SyncedVocabEntry shared by all devices.  Every async function *)
(* is cut at its awaits: one action per await, so that calls interleave    *)
(* exactly where the event loop lets them.  db.get and db.put each open a  *)
(* transaction on the 'vocabulary' store; IndexedDB runs the transactions  *)
(* of one store in the order they were created, and idbq[d] is that queue  *)
(* (the calls whose transaction is pending, oldest first).  A call creates *)
(* its next transaction in the continuation of the one that resolved, so   *)
(* before any other call runs.  chrome.storage.sync orders nothing.        *)
(***************************************************************************)
EXTENDS Integers, Sequences, FiniteSets, TLC

VARIABLES store, idbq, replica, clock, calls, nCalls, nSaved, passes,
          componentMap, frames, cedictData

\* the Vocabulary Store, its replica and the calls of storage.ts in flight
storeVars == <<store, idbq, replica, clock, calls, nCalls, nSaved, passes>>

\* the Component Occurrence Index, the dictionary cache and the calls of
\* service-worker.ts, dictionary.ts and pinyin.ts in flight
lookupVars == <<componentMap, frames, cedictData>>

vars == <<storeVars, lookupVars>>

(***************************************************************************)
(* Bounds of the model.                                                    *)
(***************************************************************************)
MaxCalls == 4
MaxAsyncCalls == 4
MaxClock == 2
MaxInFlight == 2
MaxRemoteCount == 3
MaxContextCalls == 3
MaxContextAsyncCalls == 2
MaxUpdates == 26
MaxAsyncUpdates == 3
MaxSyllableLen == 3
MaxSenses == 2
MaxGlosses == 2
MaxTextLen == 3
MaxStartupCalls == 3
MaxFailCalls == 3

Devices == {"A", "B"}
Procs == 1..MaxInFlight

(***************************************************************************)
(* Program constants of storage.ts.                                        *)
(***************************************************************************)
MAX_CONTEXTS_PER_WORD == 5
MAX_SYNCED_DEFINITIONS == 3
MAX_SYNCED_DEF_LENGTH == 100
QuotaLimit == 100000
MAX_COMPONENT_CHARS == 20
MAX_PROBE_LENGTH == 6

Min(a, b) == IF a < b THEN a ELSE b
Max(a, b) == IF a > b THEN a ELSE b

(***************************************************************************)
(* JavaScript strings.  A string is a sequence of runs [c, n]: character c *)
(* repeated n times, adjacent runs holding different characters, so equal  *)
(* strings have equal representations.  The alphabet is in the Basic       *)
(* Multilingual Plane: one UTF-16 code unit per character.                 *)
(*   "a"      an ASCII letter                                              *)
(*   "u4E2D"  a Han character                                              *)
(*   "u8C48"  a Han character, and "uF900" its CJK compatibility form,     *)
(*            which NFC maps to u8C48                                      *)
(*   "u00E2", "u20AC", "u00A6"  the three characters of the suffix that    *)
(*            truncateDefinitions appends                                  *)
(***************************************************************************)
Run(c, n) == [c |-> c, n |-> n]

\* the UTF-8 length of a character; a run may also hold an ASCII word, one byte a
\* character
Utf8Bytes(c) ==
  CASE c \in {"u4E2D", "u8C48", "uF900", "u20AC", "u5988", "u5ABD", "u5976", "u5973",
              "u9A6C"} -> 3
    [] c \in {"u00E2", "u00A6", "u00FC", "u00DC",
              "u0101", "u00E1", "u01CE", "u00E0", "u0113", "u00E9", "u011B", "u00E8",
              "u012B", "u00ED", "u01D0", "u00EC", "u014D", "u00F3", "u01D2", "u00F2",
              "u016B", "u00FA", "u01D4", "u00F9", "u01D6", "u01D8", "u01DA", "u01DC",
              "u0100", "u00C1", "u01CD", "u00C0", "u0112", "u00C9", "u011A", "u00C8",
              "u012A", "u00CD", "u01CF", "u00CC", "u014C", "u00D3", "u01D1", "u00D2",
              "u016A", "u00DA", "u01D3", "u00D9", "u01D5", "u01D7", "u01D9", "u01DB"} -> 2
    [] OTHER -> 1

NfcChar(c) == IF c = "uF900" THEN "u8C48" ELSE c

RECURSIVE Canon(_)
Canon(s) ==
  IF Len(s) <= 1 THEN s
  ELSE LET r == Canon(Tail(s)) IN
       IF Head(s).c = Head(r).c
       THEN <<Run(Head(s).c, Head(s).n + Head(r).n)>> \o Tail(r)
       ELSE <<Head(s)>> \o r

RECURSIVE StrLen(_)
StrLen(s) == IF s = <<>> THEN 0 ELSE Head(s).n + StrLen(Tail(s))

RECURSIVE StrBytes(_)
StrBytes(s) ==
  IF s = <<>> THEN 0 ELSE Head(s).n * Utf8Bytes(Head(s).c) + StrBytes(Tail(s))

\* String.prototype.slice(0, k)
RECURSIVE Slice(_, _)
Slice(s, k) ==
  IF k = 0 \/ s = <<>> THEN <<>>
  ELSE IF Head(s).n >= k THEN <<Run(Head(s).c, k)>>
  ELSE <<Head(s)>> \o Slice(Tail(s), k - Head(s).n)

Concat(s, t) == Canon(s \o t)

\* String.prototype.normalize('NFC')
NFC(s) == Canon([i \in DOMAIN s |-> Run(NfcChar(s[i].c), s[i].n)])

Ellipsis == <<Run("u00E2", 1), Run("u20AC", 1), Run("u00A6", 1)>>

(***************************************************************************)
(* JSON.stringify: the number of UTF-16 code units of the text (what       *)
(* .length returns) and the number of bytes of its UTF-8 encoding.  The    *)
(* strings of the model need no escapes.  unit = TRUE counts code units.   *)
(***************************************************************************)
RECURSIVE Digits(_)
Digits(n) == IF n < 10 THEN 1 ELSE 1 + Digits(n \div 10)

JsonStr(s, unit) == 2 + (IF unit THEN StrLen(s) ELSE StrBytes(s))

RECURSIVE JsonStrs(_, _)
JsonStrs(ds, unit) ==
  IF ds = <<>> THEN 0 ELSE JsonStr(Head(ds), unit) + JsonStrs(Tail(ds), unit)

\* ["..",".."]
JsonArr(ds, unit) == 2 + JsonStrs(ds, unit) + Max(Len(ds) - 1, 0)

\* {"w":"..","p":"..","d":[..],"c":1,"f":1,"l":1}
JsonRec(r, unit) ==
  2 + 5 + 6 * 4 + JsonStr(r.w, unit) + JsonStr(r.p, unit) + JsonArr(r.d, unit)
    + Digits(r.c) + Digits(r.f) + Digits(r.l)

RECURSIVE JsonMembers(_, _, _)
JsonMembers(data, ks, unit) ==
  IF ks = {} THEN 0
  ELSE LET k == CHOOSE x \in ks : TRUE IN
       JsonStr(k, unit) + 1 + JsonRec(data[k], unit)
         + JsonMembers(data, ks \ {k}, unit)

\* {"id":{..},"id":{..}}
JsonMap(data, unit) ==
  2 + JsonMembers(data, DOMAIN data, unit) + Max(Cardinality(DOMAIN data) - 1, 0)

\* JSON.stringify({ [SYNC_KEY]: syncedData }): {"vocab_sync":<map>}
JsonPayload(data, unit) == 1 + 12 + 1 + JsonMap(data, unit) + 1

jsonSize(syncedData) == JsonPayload(syncedData, TRUE)
payloadBytes(syncedData) == JsonPayload(syncedData, FALSE)

(***************************************************************************)
(* Maps (IndexedDB object store, the synced object).                       *)
(***************************************************************************)
EmptyMap == <<>>
Put(f, k, v) == [x \in (DOMAIN f) \cup {k} |-> IF x = k THEN v ELSE f[x]]
Get(f, k) == IF k \in DOMAIN f THEN <<f[k]>> ELSE <<>>
Count(f, k) == IF k \in DOMAIN f THEN f[k] ELSE 0

(***************************************************************************)
(* storage.ts, the synchronous parts.                                      *)
(***************************************************************************)
generateWordId_NoNormalize(word) == word

generateWordId(word) == NFC(word)

truncateDefinitions(definitions) ==
  [i \in 1..Min(Len(definitions), MAX_SYNCED_DEFINITIONS) |->
     IF StrLen(definitions[i]) > MAX_SYNCED_DEF_LENGTH
     THEN Concat(Slice(definitions[i], MAX_SYNCED_DEF_LENGTH), Ellipsis)
     ELSE definitions[i]]

entryToSyncFormat(entry) ==
  [w |-> entry.word, p |-> entry.pinyin, d |-> truncateDefinitions(entry.definitions),
   c |-> entry.lookupCount, f |-> entry.firstSeenAt, l |-> entry.lastSeenAt]

UpdatedEntry_NoCap(existing, definitions, characters, context, now) ==
  [existing EXCEPT
     !.lookupCount = existing.lookupCount + 1,
     !.lastSeenAt = now,
     !.definitions = IF Len(definitions) > 0 THEN definitions ELSE @,
     !.characters = IF Len(characters) > 0 THEN characters ELSE @,
     !.contexts =
        IF context # <<>>
           /\ ~\E i \in DOMAIN existing.contexts :
                 existing.contexts[i].sentence = context[1].sentence
        THEN Append(@, [sentence |-> context[1].sentence,
                        sourceUrl |-> context[1].sourceUrl, timestamp |-> now])
        ELSE @]

UpdatedEntry_EvictOldest(existing, definitions, characters, context, now) ==
  [existing EXCEPT
     !.lookupCount = existing.lookupCount + 1,
     !.lastSeenAt = now,
     !.definitions = IF Len(definitions) > 0 THEN definitions ELSE @,
     !.characters = IF Len(characters) > 0 THEN characters ELSE @,
     !.contexts =
        IF context # <<>>
           /\ ~\E i \in DOMAIN existing.contexts :
                 existing.contexts[i].sentence = context[1].sentence
        THEN Append(IF Len(@) < MAX_CONTEXTS_PER_WORD THEN @ ELSE Tail(@),
                    [sentence |-> context[1].sentence,
                     sourceUrl |-> context[1].sourceUrl, timestamp |-> now])
        ELSE @]

UpdatedEntry_AlwaysReplace(existing, definitions, characters, context, now) ==
  [existing EXCEPT
     !.lookupCount = existing.lookupCount + 1,
     !.lastSeenAt = now,
     !.definitions = definitions,
     !.characters = IF Len(characters) > 0 THEN characters ELSE @]

\* saveVocabularyEntry, the update branch: existing is the entry db.get returned
UpdatedEntry(existing, definitions, characters, context, now) ==
  LET isDuplicate ==
        \E i \in DOMAIN existing.contexts :
           existing.contexts[i].sentence = context[1].sentence
      contexts ==
        IF context # <<>> /\ Len(existing.contexts) < MAX_CONTEXTS_PER_WORD
           /\ ~isDuplicate
        THEN Append(existing.contexts,
                    [sentence |-> context[1].sentence,
                     sourceUrl |-> context[1].sourceUrl, timestamp |-> now])
        ELSE existing.contexts
  IN [existing EXCEPT
        !.lookupCount = existing.lookupCount + 1,
        !.lastSeenAt = now,
        !.definitions = IF Len(definitions) > 0 THEN definitions ELSE @,
        !.characters = IF Len(characters) > 0 THEN characters ELSE @,
        !.contexts = contexts]

\* saveVocabularyEntry, the create branch
CreatedEntry(id, word, pinyin, definitions, characters, context, now) ==
  [id |-> id, word |-> word, pinyin |-> pinyin, definitions |-> definitions,
   lookupCount |-> 1, firstSeenAt |-> now, lastSeenAt |-> now,
   contexts |-> IF context # <<>>
                THEN <<[sentence |-> context[1].sentence,
                        sourceUrl |-> context[1].sourceUrl, timestamp |-> now]>>
                ELSE <<>>,
   characters |-> characters]

\* syncToChrome: the record stored under entry.id in the object read from the replica
OutboundData(syncedData, entry) ==
  IF entry.id \in DOMAIN syncedData
  THEN Put(syncedData, entry.id,
           [entryToSyncFormat(entry) EXCEPT
              !.c = Max(syncedData[entry.id].c, entry.lookupCount),
              !.f = Min(syncedData[entry.id].f, entry.firstSeenAt)])
  ELSE Put(syncedData, entry.id, entryToSyncFormat(entry))

\* syncToChrome: the guard of chrome.storage.sync.set
WithinQuota(syncedData) == jsonSize(syncedData) < QuotaLimit

MergedEntry_Overwrite(existing, synced) ==
  [existing EXCEPT
     !.lookupCount = synced.c,
     !.firstSeenAt = Min(existing.firstSeenAt, synced.f),
     !.lastSeenAt = Max(existing.lastSeenAt, synced.l)]

\* syncFromChrome, a record whose id has a local entry
MergedEntry(existing, synced) ==
  [existing EXCEPT
     !.lookupCount = existing.lookupCount + synced.c,
     !.firstSeenAt = Min(existing.firstSeenAt, synced.f),
     !.lastSeenAt = Max(existing.lastSeenAt, synced.l)]

StubEntry_IdFromWord(id, synced) ==
  [id |-> synced.w, word |-> synced.w, pinyin |-> synced.p, definitions |-> synced.d,
   lookupCount |-> synced.c, firstSeenAt |-> synced.f, lastSeenAt |-> synced.l,
   contexts |-> <<>>, characters |-> <<>>]

StubEntry_CountOne(id, synced) ==
  [id |-> id, word |-> synced.w, pinyin |-> synced.p, definitions |-> synced.d,
   lookupCount |-> 1, firstSeenAt |-> synced.f, lastSeenAt |-> synced.l,
   contexts |-> <<>>, characters |-> <<>>]

\* syncFromChrome, a record whose id has no local entry
StubEntry(id, synced) ==
  [id |-> id, word |-> synced.w, pinyin |-> synced.p, definitions |-> synced.d,
   lookupCount |-> synced.c, firstSeenAt |-> synced.f, lastSeenAt |-> synced.l,
   contexts |-> <<>>, characters |-> <<>>]

(***************************************************************************)
(* Inputs.  A lookup is the argument list of one saveVocabularyEntry call  *)
(* as handleLookup builds it from a segment; context is <<>> when absent.  *)
(***************************************************************************)
W1 == <<Run("u8C48", 1)>>
W1c == <<Run("uF900", 1)>>
W2 == <<Run("u4E2D", 1)>>
Pinyin == <<Run("a", 2)>>
DefShort == <<Run("a", 5)>>
DefOther == <<Run("a", 4), Run("u4E2D", 1)>>
DefAtLimit == <<Run("a", MAX_SYNCED_DEF_LENGTH)>>
DefLong == <<Run("a", MAX_SYNCED_DEF_LENGTH), Run("u4E2D", 20)>>
Char1 == [character |-> W1, radical |-> W2, strokeCount |-> 10]
Context1 == [sentence |-> <<Run("u4E2D", 3)>>, sourceUrl |-> <<Run("a", 3)>>]

Lookup(word, definitions, characters, context) ==
  [word |-> word, pinyin |-> Pinyin, definitions |-> definitions,
   characters |-> characters, context |-> context]

SmallLookups ==
  { Lookup(W1, <<DefShort>>, <<Char1>>, <<Context1>>),
    Lookup(W1c, <<DefLong, DefAtLimit, DefShort, DefOther>>, <<>>, <<>>),
    Lookup(W2, <<>>, <<>>, <<>>) }

(***************************************************************************)
(* Calls in flight.  calls[p] is the activation record of the async call   *)
(* in slot p: its position (pc) and its locals.  replica0 and store0 keep  *)
(* what the replica and the device's store held when the call began; the   *)
(* code does not have them, the properties below read them.  So do nCalls  *)
(* (calls begun), nSaved[d][k] (saveVocabularyEntry calls of device d that *)
(* returned, by NFC key k) and passes[d] (for each syncFromChrome pass of  *)
(* d that returned, the object it read and the ids its store held).        *)
(***************************************************************************)
Idle == [pc |-> "idle"]

\* no lookup in flight, the componentMap store as getDB creates it, no dictionary
\* loaded
LookupInit ==
  /\ componentMap = [d \in Devices |-> EmptyMap]
  /\ frames = [p \in Procs |-> Idle]
  /\ cedictData = <<>>

IsIdle(p) == calls[p].pc = "idle"

\* the lowest free slot, of the lim slots that calls may overlap in
FreeSlot(lim, p) ==
  /\ p <= lim
  /\ IsIdle(p)
  /\ \A q \in Procs : q < p => ~IsIdle(q)
  /\ nCalls < MaxCalls

Init ==
  /\ store = [d \in Devices |-> EmptyMap]
  /\ idbq = [d \in Devices |-> <<>>]
  /\ replica = EmptyMap
  /\ clock = 1
  /\ calls = [p \in Procs |-> Idle]
  /\ nCalls = 0
  /\ nSaved = [d \in Devices |-> EmptyMap]
  /\ passes = [d \in Devices |-> <<>>]
  /\ LookupInit

\* saveVocabularyEntry is called: getDB, generateWordId, Date.now().  clock is the
\* last value Date.now() returned; the next one is not before it.
SaveCall(lim, p, d, lk) ==
  /\ FreeSlot(lim, p)
  /\ \E now \in clock..Min(clock + 1, MaxClock) :
       /\ clock' = now
       /\ calls' = [calls EXCEPT ![p] =
            [pc |-> "dbGet", op |-> "save", dev |-> d, lk |-> lk,
             id |-> generateWordId(lk.word), now |-> now, entry |-> <<>>,
             syncedData |-> EmptyMap, replica0 |-> replica, store0 |-> store[d],
             wrote |-> FALSE]]
  /\ idbq' = [idbq EXCEPT ![d] = Append(@, p)]
  /\ nCalls' = nCalls + 1
  /\ UNCHANGED <<store, replica, nSaved, passes>>

\* db.get('vocabulary', id) resolves; the entry to store is computed
SaveDbGet(p) ==
  /\ calls[p].pc = "dbGet"
  /\ Head(idbq[calls[p].dev]) = p
  /\ idbq' = [idbq EXCEPT ![calls[p].dev] = Append(Tail(@), p)]
  /\ LET c == calls[p]
         existing == Get(store[c.dev], c.id)
         entry == IF existing # <<>>
                  THEN UpdatedEntry(existing[1], c.lk.definitions, c.lk.characters,
                                    c.lk.context, c.now)
                  ELSE CreatedEntry(c.id, c.lk.word, c.lk.pinyin, c.lk.definitions,
                                    c.lk.characters, c.lk.context, c.now)
     IN calls' = [calls EXCEPT ![p].pc = "dbPut", ![p].entry = <<entry>>]
  /\ UNCHANGED <<store, replica, clock, nCalls, nSaved, passes>>

\* db.put('vocabulary', entry)
SaveDbPut(p) ==
  /\ calls[p].pc = "dbPut"
  /\ Head(idbq[calls[p].dev]) = p
  /\ idbq' = [idbq EXCEPT ![calls[p].dev] = Tail(@)]
  /\ LET c == calls[p] IN
       store' = [store EXCEPT ![c.dev] = Put(@, c.entry[1].id, c.entry[1])]
  /\ calls' = [calls EXCEPT ![p].pc = "chromeGet"]
  /\ UNCHANGED <<replica, clock, nCalls, nSaved, passes>>

\* syncToChrome: chrome.storage.sync.get resolves; the object to write and its size
SyncToChromeGet(p) ==
  /\ calls[p].pc = "chromeGet"
  /\ LET syncedData == OutboundData(replica, calls[p].entry[1]) IN
       calls' = [calls EXCEPT
                   ![p].syncedData = syncedData,
                   ![p].pc = IF WithinQuota(syncedData) THEN "chromeSet" ELSE "saved"]
  /\ UNCHANGED <<idbq, store, replica, clock, nCalls, nSaved, passes>>

\* syncToChrome: chrome.storage.sync.set({ vocab_sync: syncedData })
SyncToChromeSet(p) ==
  /\ calls[p].pc = "chromeSet"
  /\ replica' = calls[p].syncedData
  /\ calls' = [calls EXCEPT ![p].pc = "saved", ![p].wrote = TRUE]
  /\ UNCHANGED <<idbq, store, clock, nCalls, nSaved, passes>>

\* saveVocabularyEntry returns entry
SaveReturn(p) ==
  /\ calls[p].pc = "saved"
  /\ LET c == calls[p]
         key == NFC(c.lk.word)
     IN nSaved' = [nSaved EXCEPT ![c.dev] = Put(@, key, Count(@, key) + 1)]
  /\ calls' = [calls EXCEPT ![p] = Idle]
  /\ UNCHANGED <<idbq, store, replica, clock, nCalls, passes>>

\* syncFromChrome is called: chrome.storage.sync.get resolves, getDB, and the loop
\* issues the db.get of its first record
SyncFromCall(lim, p, d) ==
  /\ FreeSlot(lim, p)
  /\ idbq' = [idbq EXCEPT ![d] = IF DOMAIN replica = {} THEN @ ELSE Append(@, p)]
  /\ calls' = [calls EXCEPT ![p] =
       [pc |-> "sfLoop", op |-> "syncFrom", dev |-> d, syncedData |-> replica,
        todo |-> DOMAIN replica, cur |-> <<>>, store0 |-> store[d]]]
  /\ nCalls' = nCalls + 1
  /\ UNCHANGED <<store, replica, clock, nSaved, passes>>

\* the loop takes the next record; db.get('vocabulary', id) resolves.  The
\* records are taken in any order (Object.entries fixes one).
SyncFromDbGet(p) ==
  /\ calls[p].pc = "sfLoop"
  /\ calls[p].todo # {}
  /\ Head(idbq[calls[p].dev]) = p
  /\ idbq' = [idbq EXCEPT ![calls[p].dev] = Append(Tail(@), p)]
  /\ \E id \in calls[p].todo :
       LET c == calls[p]
           synced == c.syncedData[id]
           existing == Get(store[c.dev], id)
           entry == IF existing # <<>> THEN MergedEntry(existing[1], synced)
                    ELSE StubEntry(id, synced)
       IN calls' = [calls EXCEPT ![p].pc = "sfPut", ![p].cur = <<entry>>,
                                 ![p].todo = @ \ {id}]
  /\ UNCHANGED <<store, replica, clock, nCalls, nSaved, passes>>

\* db.put('vocabulary', merged) or db.put('vocabulary', newEntry); the loop issues
\* the db.get of its next record
SyncFromDbPut(p) ==
  /\ calls[p].pc = "sfPut"
  /\ Head(idbq[calls[p].dev]) = p
  /\ idbq' = [idbq EXCEPT ![calls[p].dev] =
                IF calls[p].todo = {} THEN Tail(@) ELSE Append(Tail(@), p)]
  /\ LET c == calls[p] IN
       store' = [store EXCEPT ![c.dev] = Put(@, c.cur[1].id, c.cur[1])]
  /\ calls' = [calls EXCEPT ![p].pc = "sfLoop", ![p].cur = <<>>]
  /\ UNCHANGED <<replica, clock, nCalls, nSaved, passes>>

\* the loop is over; syncFromChrome returns
SyncFromReturn(p) ==
  /\ calls[p].pc = "sfLoop"
  /\ calls[p].todo = {}
  /\ passes' = [passes EXCEPT ![calls[p].dev] =
                  Append(@, [data |-> calls[p].syncedData,
                             had |-> DOMAIN calls[p].store0])]
  /\ calls' = [calls EXCEPT ![p] = Idle]
  /\ UNCHANGED <<idbq, store, replica, clock, nCalls, nSaved>>

SaveSteps(p) ==
  \/ SaveDbGet(p)
  \/ SaveDbPut(p)
  \/ SyncToChromeGet(p)
  \/ SyncToChromeSet(p)
  \/ SaveReturn(p)

SyncFromSteps(p) ==
  \/ SyncFromDbGet(p)
  \/ SyncFromDbPut(p)
  \/ SyncFromReturn(p)

Steps(p) == SaveSteps(p) \/ SyncFromSteps(p)

(***************************************************************************)
(* Spec: the calls of two devices, one at a time (every call runs to its   *)
(* return before the next begins).                                         *)
(***************************************************************************)
Next ==
  \/ \E p \in Procs, d \in Devices, lk \in SmallLookups :
       /\ SaveCall(1, p, d, lk)
       /\ UNCHANGED lookupVars
  \/ \E p \in Procs, d \in Devices :
       /\ SyncFromCall(1, p, d)
       /\ UNCHANGED lookupVars
  \/ \E p \in Procs :
       /\ Steps(p)
       /\ UNCHANGED lookupVars

Spec == Init /\ [][Next]_vars

(***************************************************************************)
(* AsyncSpec: the calls of one device's service worker, up to MaxInFlight   *)
(* of them in flight at once, interleaving at their awaits (two LOOKUP     *)
(* messages, or a LOOKUP and the onStartup pass).                          *)
(***************************************************************************)
AsyncLookups ==
  { Lookup(W1, <<DefShort>>, <<Char1>>, <<Context1>>),
    Lookup(W2, <<>>, <<>>, <<>>) }

AsyncNext ==
  \/ \E p \in Procs, lk \in AsyncLookups :
       /\ nCalls < MaxAsyncCalls
       /\ SaveCall(MaxInFlight, p, "A", lk)
       /\ UNCHANGED lookupVars
  \/ \E p \in Procs :
       /\ nCalls < MaxAsyncCalls
       /\ SyncFromCall(MaxInFlight, p, "A")
       /\ UNCHANGED lookupVars
  \/ \E p \in Procs :
       /\ Steps(p)
       /\ UNCHANGED lookupVars

AsyncSpec == Init /\ [][AsyncNext]_vars

(***************************************************************************)
(* MergeSpec: one device, one call at a time, and the other devices of the *)
(* account, whose syncToChrome writes put objects of their own into the    *)
(* replica.  Their clocks may be ahead of this device's.                   *)
(***************************************************************************)
RemoteTimes == 1..(MaxClock + 1)

RemoteRecords ==
  { r \in [w : {W1}, p : {Pinyin}, d : {<<DefShort>>}, c : 1..MaxRemoteCount,
           f : RemoteTimes, l : RemoteTimes] : r.f <= r.l }

\* another device's chrome.storage.sync.set({ vocab_sync: syncedData })
EnvReplicaWrite(r) ==
  /\ nCalls < MaxCalls
  /\ replica' = Put(EmptyMap, generateWordId(r.w), r)
  /\ nCalls' = nCalls + 1
  /\ UNCHANGED <<store, idbq, clock, calls, nSaved, passes>>

MergeLookups ==
  { Lookup(W1, <<DefShort>>, <<Char1>>, <<Context1>>),
    Lookup(W2, <<>>, <<>>, <<>>) }

MergeNext ==
  \/ \E r \in RemoteRecords :
       /\ EnvReplicaWrite(r)
       /\ UNCHANGED lookupVars
  \/ \E p \in Procs, lk \in MergeLookups :
       /\ SaveCall(1, p, "A", lk)
       /\ UNCHANGED lookupVars
  \/ \E p \in Procs :
       /\ SyncFromCall(1, p, "A")
       /\ UNCHANGED lookupVars
  \/ \E p \in Procs :
       /\ Steps(p)
       /\ UNCHANGED lookupVars

MergeSpec == Init /\ [][MergeNext]_vars

(***************************************************************************)
(* QuotaSpec: one device, one save at a time, of words long enough to meet *)
(* the quota guard of syncToChrome.  FillLen is the length of the ASCII    *)
(* word whose record, alone in the replica, makes a payload of exactly     *)
(* QuotaLimit code units (and as many bytes).                              *)
(***************************************************************************)
EmptyWordPayload ==
  jsonSize(OutboundData(EmptyMap,
                        CreatedEntry(<<>>, <<>>, Pinyin, <<>>, <<>>, <<>>, 1)))

FillLen == (QuotaLimit - EmptyWordPayload) \div 2

WordAtLimit == <<Run("a", FillLen)>>
WordUnderLimit == <<Run("a", FillLen - 1)>>
WordHan == <<Run("u4E2D", FillLen \div 2)>>

QuotaLookups ==
  { Lookup(WordAtLimit, <<>>, <<>>, <<>>),
    Lookup(WordUnderLimit, <<>>, <<>>, <<>>),
    Lookup(WordHan, <<>>, <<>>, <<>>),
    Lookup(W2, <<>>, <<>>, <<>>) }

QuotaNext ==
  \/ \E p \in Procs, lk \in QuotaLookups :
       /\ SaveCall(1, p, "A", lk)
       /\ UNCHANGED lookupVars
  \/ \E p \in Procs :
       /\ SaveSteps(p)
       /\ UNCHANGED lookupVars

QuotaSpec == Init /\ [][QuotaNext]_vars

(***************************************************************************)
(* Properties.                                                             *)
(***************************************************************************)
AllIdle == \A p \in Procs : IsIdle(p)
Saved(d, k) == Count(nSaved[d], k)
Keys == {NFC(lk.word) : lk \in SmallLookups}
EntriesFor(d, k) == {id \in DOMAIN store[d] : NFC(store[d][id].word) = k}
PassEnded(p) == calls[p].pc = "sfLoop" /\ calls[p].todo = {}
Other(d) == CHOOSE e \in Devices : e # d

\* C1: on a device that ran no syncFromChrome, after n >= 1 saves of words with NFC
\* key k, one after the other, the store holds exactly one entry for k (under id k)
\* and its lookupCount is n; after none it holds no entry for k.
C1_SequentialSavesCount ==
  \A d \in Devices, k \in Keys :
    (AllIdle /\ passes[d] = <<>>) =>
      IF Saved(d, k) = 0 THEN EntriesFor(d, k) = {}
      ELSE /\ EntriesFor(d, k) = {k}
           /\ store[d][k].id = k
           /\ store[d][k].lookupCount = Saved(d, k)

\* C1 witness: three saves of one key, by its canonical and its compatibility form
C1_Witness ==
  /\ AllIdle
  /\ passes["A"] = <<>>
  /\ Saved("A", W1) = 3
  /\ store["A"][W1].word = W1c
  /\ store["A"][W1].contexts # <<>>

\* C3: when device d ends its first syncFromChrome pass, no other pass having run,
\* after d saved a key b >= 1 times and the other device saved it a >= 1 times,
\* d's lookupCount for the key is a + b.
C3_AdditiveAcrossDevices ==
  \A p \in Procs, k \in Keys :
    (/\ PassEnded(p)
     /\ \A d \in Devices : passes[d] = <<>>
     /\ Saved(calls[p].dev, k) >= 1
     /\ Saved(Other(calls[p].dev), k) >= 1
     /\ k \in DOMAIN calls[p].syncedData)
    => store[calls[p].dev][k].lookupCount
         = Saved(calls[p].dev, k) + Saved(Other(calls[p].dev), k)

\* C10: every record of the replica has at most 3 definitions, each of at most 100
\* characters.
C10_CompactDefinitionsBounded ==
  \A k \in DOMAIN replica :
    /\ Len(replica[k].d) <= MAX_SYNCED_DEFINITIONS
    /\ \A i \in DOMAIN replica[k].d : StrLen(replica[k].d[i]) <= MAX_SYNCED_DEF_LENGTH

\* C2: whenever no call is in flight, on a device that ran no syncFromChrome the
\* lookupCount of a key equals the number of saves of it that returned, overlapping
\* or not: no increment is lost.
C2_NoLostIncrement ==
  \A d \in Devices, k \in Keys :
    (AllIdle /\ passes[d] = <<>> /\ Saved(d, k) > 0) =>
      /\ k \in DOMAIN store[d]
      /\ store[d][k].lookupCount = Saved(d, k)

\* C6: no step of any execution lowers the stored lookupCount of an entry.
C6_LookupCountNeverDecreases ==
  [][\A d \in Devices : \A k \in DOMAIN store[d] :
       /\ k \in DOMAIN store'[d]
       /\ store'[d][k].lookupCount >= store[d][k].lookupCount]_vars

\* C7: no step of any execution lowers the c or raises the f of a replica record.
C7_ReplicaCounterMonotonic ==
  [][\A k \in (DOMAIN replica) \cap (DOMAIN replica') :
       /\ replica'[k].c >= replica[k].c
       /\ replica'[k].f <= replica[k].f]_vars

\* C4: when a syncFromChrome pass ends, every entry the store held at its start
\* whose id is in the object read has lookupCount = local + remote c, firstSeenAt =
\* min(local, remote f), lastSeenAt = max(local, remote l) and its other fields as
\* they were; every entry whose id is not in the object is as it was.
C4_InboundMergeRule ==
  \A p \in Procs :
    PassEnded(p) =>
      \A k \in DOMAIN calls[p].store0 :
        LET old == calls[p].store0[k]
            new == store[calls[p].dev][k]
            data == calls[p].syncedData
        IN IF k \in DOMAIN data
           THEN /\ new.lookupCount = old.lookupCount + data[k].c
                /\ new.firstSeenAt = Min(old.firstSeenAt, data[k].f)
                /\ new.lastSeenAt = Max(old.lastSeenAt, data[k].l)
                /\ new.id = old.id
                /\ new.word = old.word
                /\ new.pinyin = old.pinyin
                /\ new.definitions = old.definitions
                /\ new.contexts = old.contexts
                /\ new.characters = old.characters
           ELSE new = old

\* C4 witness: a pass ends that merged a record older and newer than the local entry
\* (which has a context) and left alone an entry the replica does not hold
C4_Witness ==
  \E p \in Procs :
    /\ PassEnded(p)
    /\ \E k \in (DOMAIN calls[p].store0) \cap (DOMAIN calls[p].syncedData) :
         /\ calls[p].syncedData[k].f < calls[p].store0[k].firstSeenAt
         /\ calls[p].syncedData[k].l > calls[p].store0[k].lastSeenAt
         /\ calls[p].syncedData[k].c >= 2
         /\ calls[p].store0[k].contexts # <<>>
    /\ (DOMAIN calls[p].store0) \ (DOMAIN calls[p].syncedData) # {}

\* C5: after two passes that ingested records x then y of a key the store had no
\* entry for (and no local save of it), the entry has lookupCount = x.c + y.c,
\* firstSeenAt = min(x.f, y.f), lastSeenAt = max(x.l, y.l): the same for y then x.
C5_MergeCommutes ==
  \A d \in Devices, k \in Keys :
    (/\ AllIdle
     /\ Len(passes[d]) = 2
     /\ Saved(d, k) = 0
     /\ k \notin passes[d][1].had
     /\ k \in DOMAIN passes[d][1].data
     /\ k \in DOMAIN passes[d][2].data)
    => LET x == passes[d][1].data[k]
           y == passes[d][2].data[k]
       IN /\ k \in DOMAIN store[d]
          /\ store[d][k].lookupCount = x.c + y.c
          /\ store[d][k].firstSeenAt = Min(x.f, y.f)
          /\ store[d][k].lastSeenAt = Max(x.l, y.l)

\* C5 witness: counts 3 then 2 ingested into a store without the key, the second
\* record both older and newer than the first
C5_Witness ==
  /\ AllIdle
  /\ Len(passes["A"]) = 2
  /\ Saved("A", W1) = 0
  /\ W1 \notin passes["A"][1].had
  /\ W1 \in DOMAIN passes["A"][1].data
  /\ W1 \in DOMAIN passes["A"][2].data
  /\ passes["A"][1].data[W1].c = 3
  /\ passes["A"][2].data[W1].c = 2
  /\ passes["A"][2].data[W1].f < passes["A"][1].data[W1].f
  /\ passes["A"][2].data[W1].l > passes["A"][1].data[W1].l
  /\ store["A"][W1].lookupCount = 5

SaveEnded(p) == calls[p].pc = "saved"

\* C8: when a save ends whose payload was over the budget of 100,000 bytes, the
\* replica is as it was when the save began and the store holds the entry the save
\* returns, with its lookupCount incremented and lastSeenAt = now.
C8_QuotaGuardFrame ==
  \A p \in Procs :
    (SaveEnded(p) /\ payloadBytes(calls[p].syncedData) > QuotaLimit) =>
      LET c == calls[p] IN
        /\ replica = c.replica0
        /\ c.id \in DOMAIN store[c.dev]
        /\ store[c.dev][c.id] = c.entry[1]
        /\ c.entry[1].lastSeenAt = c.now
        /\ c.entry[1].lookupCount =
             (IF c.id \in DOMAIN c.store0 THEN c.store0[c.id].lookupCount ELSE 0) + 1

\* C9: a save wrote its payload to the replica exactly when the payload was of at
\* most 100,000 bytes, and the replica never holds a payload of more.
C9_WriteIffWithinByteBudget ==
  /\ \A p \in Procs :
       SaveEnded(p) =>
         (calls[p].wrote <=> payloadBytes(calls[p].syncedData) <= QuotaLimit)
  /\ payloadBytes(replica) <= QuotaLimit

(***************************************************************************)
(* ContextSpec and ContextAsyncSpec: saves of one word with and without a  *)
(* context sentence, on a device whose store already holds what earlier    *)
(* saves left there.  EntryAfter(k) is the entry k saves of W1 made one    *)
(* after the other at time 1, the i-th with the sentence Sentence(i).      *)
(***************************************************************************)
Sentence(i) == <<Run("u4E2D", i)>>
Ctx(i) == [sentence |-> Sentence(i), sourceUrl |-> <<Run("a", 3)>>]
CtxOtherUrl == [sentence |-> Sentence(1), sourceUrl |-> <<Run("a", 4)>>]
Pinyin2 == <<Run("a", 3)>>
Char2 == [character |-> W1, radical |-> W1, strokeCount |-> 0]

RECURSIVE EntryAfter(_)
EntryAfter(k) ==
  IF k = 1
  THEN CreatedEntry(generateWordId(W1), W1, Pinyin, <<>>, <<>>, <<Ctx(1)>>, 1)
  ELSE UpdatedEntry(EntryAfter(k - 1), <<>>, <<>>, <<Ctx(k)>>, 1)

ContextInit ==
  \E k \in {0, MAX_CONTEXTS_PER_WORD - 1} :
    /\ store = [d \in Devices |->
                  IF d = "A" /\ k > 0
                  THEN Put(EmptyMap, generateWordId(W1), EntryAfter(k))
                  ELSE EmptyMap]
    /\ replica = IF k > 0
                 THEN OutboundData(EmptyMap, EntryAfter(k))
                 ELSE EmptyMap
    /\ nSaved = [d \in Devices |->
                   IF d = "A" /\ k > 0 THEN Put(EmptyMap, NFC(W1), k) ELSE EmptyMap]
    /\ idbq = [d \in Devices |-> <<>>]
    /\ clock = 1
    /\ calls = [p \in Procs |-> Idle]
    /\ nCalls = 0
    /\ passes = [d \in Devices |-> <<>>]
    /\ LookupInit

ContextLookups ==
  { Lookup(W1, <<>>, <<>>, <<Ctx(i)>>) : i \in 1..(MAX_CONTEXTS_PER_WORD + 1) }
  \cup { Lookup(W1, <<>>, <<>>, <<CtxOtherUrl>>),
         Lookup(W1, <<>>, <<Char1>>, <<>>),
         Lookup(W1c, <<DefShort>>, <<>>, <<>>),
         [Lookup(W1, <<DefOther>>, <<Char2>>, <<>>) EXCEPT !.pinyin = Pinyin2] }

ContextNext ==
  \/ \E p \in Procs, lk \in ContextLookups :
       /\ nCalls < MaxContextCalls
       /\ SaveCall(1, p, "A", lk)
       /\ UNCHANGED lookupVars
  \/ \E p \in Procs :
       /\ SaveSteps(p)
       /\ UNCHANGED lookupVars

ContextSpec == ContextInit /\ [][ContextNext]_vars

ContextAsyncLookups ==
  { Lookup(W1, <<>>, <<>>, <<Ctx(i)>>) :
      i \in {MAX_CONTEXTS_PER_WORD, MAX_CONTEXTS_PER_WORD + 1} }
  \cup { Lookup(W1, <<>>, <<>>, <<CtxOtherUrl>>) }

ContextAsyncNext ==
  \/ \E p \in Procs, lk \in ContextAsyncLookups :
       /\ nCalls < MaxContextAsyncCalls
       /\ SaveCall(MaxInFlight, p, "A", lk)
       /\ UNCHANGED lookupVars
  \/ \E p \in Procs :
       /\ nCalls < MaxContextAsyncCalls
       /\ SyncFromCall(MaxInFlight, p, "A")
       /\ UNCHANGED lookupVars
  \/ \E p \in Procs :
       /\ Steps(p)
       /\ UNCHANGED lookupVars

ContextAsyncSpec == ContextInit /\ [][ContextAsyncNext]_vars

Sentences(entry) == {entry.contexts[i].sentence : i \in DOMAIN entry.contexts}
IsPrefix(s, t) == Len(s) <= Len(t) /\ SubSeq(t, 1, Len(s)) = s
SaveUpdated(p) == SaveEnded(p) /\ calls[p].id \in DOMAIN calls[p].store0
Before(p) == calls[p].store0[calls[p].id]
After(p) == store[calls[p].dev][calls[p].id]

\* C11: in every state, whatever the interleaving of saveVocabularyEntry and
\* syncFromChrome calls, every stored entry has at most 5 contexts and no two of
\* them have the same sentence.
C11_ContextsBoundedDistinct ==
  \A d \in Devices : \A id \in DOMAIN store[d] :
    LET cs == store[d][id].contexts IN
      /\ Len(cs) <= MAX_CONTEXTS_PER_WORD
      /\ \A i, j \in DOMAIN cs : cs[i].sentence = cs[j].sentence => i = j

\* C11 witness: the entry holds 5 contexts while two saves that both read it with
\* 4 have ended, one of them with a sentence the entry does not hold
C11_Witness ==
  \E p, q \in Procs :
    /\ p # q /\ SaveUpdated(p) /\ SaveUpdated(q)
    /\ Len(Before(p).contexts) = MAX_CONTEXTS_PER_WORD - 1
    /\ Len(Before(q).contexts) = MAX_CONTEXTS_PER_WORD - 1
    /\ Len(After(p).contexts) = MAX_CONTEXTS_PER_WORD
    /\ calls[q].lk.context[1].sentence \notin Sentences(After(p))

\* C12: when a save, run alone, ends on an entry that existed, the contexts stored
\* before are a prefix of the contexts stored now, at most one was appended, and if
\* there were 5 the list is unchanged; lookupCount is one more in every case.
C12_ContextsAppendOnlyDropNew ==
  \A p \in Procs :
    SaveUpdated(p) =>
      /\ IsPrefix(Before(p).contexts, After(p).contexts)
      /\ Len(After(p).contexts) <= Len(Before(p).contexts) + 1
      /\ Len(Before(p).contexts) = MAX_CONTEXTS_PER_WORD =>
           After(p).contexts = Before(p).contexts
      /\ After(p).lookupCount = Before(p).lookupCount + 1

\* C12 witness: a save with a 6th distinct sentence has ended on an entry of 5
C12_Witness ==
  \E p \in Procs :
    /\ SaveUpdated(p)
    /\ Len(Before(p).contexts) = MAX_CONTEXTS_PER_WORD
    /\ calls[p].lk.context # <<>>
    /\ calls[p].lk.context[1].sentence \notin Sentences(Before(p))
    /\ After(p).lookupCount = MAX_CONTEXTS_PER_WORD + 1

\* C13: when a save, run alone, ends on an entry that existed, definitions are the
\* new ones if that list is non-empty and the stored ones otherwise, likewise
\* characters, and id, word, pinyin and firstSeenAt are the stored ones.
C13_UpdateKeepsFields ==
  \A p \in Procs :
    SaveUpdated(p) =>
      LET lk == calls[p].lk IN
        /\ After(p).definitions =
             IF lk.definitions # <<>> THEN lk.definitions ELSE Before(p).definitions
        /\ After(p).characters =
             IF lk.characters # <<>> THEN lk.characters ELSE Before(p).characters
        /\ After(p).id = Before(p).id
        /\ After(p).word = Before(p).word
        /\ After(p).pinyin = Before(p).pinyin
        /\ After(p).firstSeenAt = Before(p).firstSeenAt

\* C13 witness: a save with no definitions, other characters and a later time has
\* ended on an entry that holds definitions, characters and another word form
C13_Witness ==
  \E p \in Procs :
    /\ SaveUpdated(p)
    /\ calls[p].lk.definitions = <<>>
    /\ calls[p].lk.characters = <<Char1>>
    /\ Before(p).definitions = <<DefOther>>
    /\ Before(p).characters = <<Char2>>
    /\ Before(p).pinyin = Pinyin2
    /\ calls[p].now > Before(p).firstSeenAt
    /\ After(p).definitions = <<DefOther>>

(***************************************************************************)
(* The Component Occurrence Index: the 'componentMap' store of a device, a *)
(* map component -> list of characters.  frames[p] is the activation       *)
(* record of the call of service-worker.ts, dictionary.ts or pinyin.ts in  *)
(* slot p.  updateComponentMap reads with db.get and writes with db.put in *)
(* two transactions; its calls interleave at these awaits (in any order:   *)
(* more orders than IndexedDB allows).  n0 and alone tell the properties   *)
(* whether a call ran from call to return with no other call in flight.    *)
(***************************************************************************)
FrameIdle(p) == frames[p].pc = "idle"

FreeFrame(lim, p) ==
  /\ p <= lim
  /\ FrameIdle(p) /\ IsIdle(p)
  /\ \A q \in Procs : q < p => ~(FrameIdle(q) /\ IsIdle(q))

Includes(chars, character) == \E i \in DOMAIN chars : chars[i] = character

NoShift(chars) == chars

\* chars.shift() when chars.length > 20
ShiftOver(chars) == IF Len(chars) > MAX_COMPONENT_CHARS THEN Tail(chars) ELSE chars

\* the fields of a frame that updateComponentMap(component, character) works on
UpdateFields(d, component, character) ==
  [dev |-> d, component |-> component, character |-> character, chars |-> <<>>,
   cm0 |-> componentMap[d], n0 |-> nCalls + 1,
   alone |-> \A q \in Procs : FrameIdle(q) /\ IsIdle(q)]

\* updateComponentMap is called: getDB
UpdateComponentMapCall(lim, p, d, component, character) ==
  /\ FreeFrame(lim, p)
  /\ frames' = [frames EXCEPT ![p] =
       [pc |-> "umGet", op |-> "update"] @@ UpdateFields(d, component, character)]
  /\ nCalls' = nCalls + 1
  /\ UNCHANGED <<store, idbq, replica, clock, calls, nSaved, passes>>
  /\ UNCHANGED <<componentMap, cedictData>>

\* db.get('componentMap', component) resolves; chars.includes, push and shift
UpdateComponentMapGet(p) ==
  /\ frames[p].pc = "umGet"
  /\ LET f == frames[p]
         existing == Get(componentMap[f.dev], f.component)
         chars == IF existing # <<>> THEN existing[1] ELSE <<>>
     IN IF ~Includes(chars, f.character)
        THEN frames' = [frames EXCEPT
                          ![p].chars = ShiftOver(Append(chars, f.character)),
                          ![p].pc = "umPut"]
        ELSE frames' = [frames EXCEPT ![p].chars = chars, ![p].pc = "umDone"]
  /\ UNCHANGED <<storeVars, componentMap, cedictData>>

\* db.put('componentMap', chars, component)
UpdateComponentMapPut(p) ==
  /\ frames[p].pc = "umPut"
  /\ componentMap' = [componentMap EXCEPT ![frames[p].dev] =
                        Put(@, frames[p].component, frames[p].chars)]
  /\ frames' = [frames EXCEPT ![p].pc = "umDone"]
  /\ UNCHANGED <<storeVars, cedictData>>

\* updateComponentMap, called by itself, returns
UpdateComponentMapReturn(p) ==
  /\ frames[p].pc = "umDone"
  /\ frames[p].op = "update"
  /\ frames' = [frames EXCEPT ![p] = Idle]
  /\ UNCHANGED <<storeVars, componentMap, cedictData>>

(***************************************************************************)
(* ComponentSpec: calls of updateComponentMap under one component, either  *)
(* on device A, one at a time from an empty index, or on device B, up to   *)
(* MaxInFlight at once on an index that holds the characters 1..19 (what   *)
(* 19 calls leave on device A).  Characters are numbered in the order they *)
(* first occur: a call records a character that occurred before, or the   *)
(* next new one.                                                           *)
(***************************************************************************)
Radical1 == W2
Characters == 1..MaxUpdates

Recorded(d, component) ==
  LET existing == Get(componentMap[d], component)
  IN IF existing # <<>> THEN existing[1] ELSE <<>>

NextNew(d, component) ==
  LET chars == Recorded(d, component)
  IN 1 + Max(0, CHOOSE m \in 0..MaxUpdates :
                  /\ m = 0 \/ Includes(chars, m)
                  /\ \A i \in DOMAIN chars : chars[i] <= m)

ComponentInit ==
  /\ store = [d \in Devices |-> EmptyMap]
  /\ idbq = [d \in Devices |-> <<>>]
  /\ replica = EmptyMap
  /\ clock = 1
  /\ calls = [p \in Procs |-> Idle]
  /\ nCalls = 0
  /\ nSaved = [d \in Devices |-> EmptyMap]
  /\ passes = [d \in Devices |-> <<>>]
  /\ frames = [p \in Procs |-> Idle]
  /\ cedictData = <<>>
  /\ \E filled \in BOOLEAN :
       componentMap =
         [d \in Devices |->
            IF d = "B" /\ filled
            THEN Put(EmptyMap, Radical1, [i \in 1..(MAX_COMPONENT_CHARS - 1) |-> i])
            ELSE EmptyMap]

ComponentNext ==
  \/ \E p \in Procs, character \in Characters :
       /\ componentMap["B"] = EmptyMap
       /\ nCalls < MaxUpdates
       /\ character <= NextNew("A", Radical1)
       /\ UpdateComponentMapCall(1, p, "A", Radical1, character)
  \/ \E p \in Procs, character \in Characters :
       /\ componentMap["B"] # EmptyMap
       /\ nCalls < MaxAsyncUpdates
       /\ character \in {1, NextNew("B", Radical1) - 1, NextNew("B", Radical1)}
       /\ UpdateComponentMapCall(MaxInFlight, p, "B", Radical1, character)
  \/ \E p \in Procs : UpdateComponentMapGet(p)
  \/ \E p \in Procs : UpdateComponentMapPut(p)
  \/ \E p \in Procs : UpdateComponentMapReturn(p)

ComponentSpec == ComponentInit /\ [][ComponentNext]_vars

UpdateEnded(p) == frames[p].pc = "umDone" /\ frames[p].op = "update"
RanAlone(p) == frames[p].alone /\ nCalls = frames[p].n0
ListBefore(p) ==
  LET existing == Get(frames[p].cm0, frames[p].component)
  IN IF existing # <<>> THEN existing[1] ELSE <<>>
ListAfter(p) == Recorded(frames[p].dev, frames[p].component)
LastOf(s, n) == SubSeq(s, Len(s) - Min(n, Len(s)) + 1, Len(s))

\* C19: every list of the index has at most 20 characters; a call of
\* updateComponentMap that ran alone left the list unchanged if it held the
\* character, and otherwise left the last 20 of the list with the character
\* appended, so after the characters 1..25 were recorded in this order, each call
\* alone, the list is 6..25; other keys are untouched.
C19_ComponentListBounded ==
  /\ \A d \in Devices : \A k \in DOMAIN componentMap[d] :
       Len(componentMap[d][k]) <= MAX_COMPONENT_CHARS
  /\ \A p \in Procs :
       (UpdateEnded(p) /\ RanAlone(p)) =>
          /\ ListAfter(p) =
               IF Includes(ListBefore(p), frames[p].character)
               THEN ListBefore(p)
               ELSE LastOf(Append(ListBefore(p), frames[p].character),
                           MAX_COMPONENT_CHARS)
          /\ \A k \in DOMAIN frames[p].cm0 :
               k # frames[p].component =>
                 componentMap[frames[p].dev][k] = frames[p].cm0[k]
  /\ \A p \in Procs :
       (UpdateEnded(p) /\ RanAlone(p) /\ frames[p].character = MAX_COMPONENT_CHARS + 5
        /\ ListBefore(p) = [i \in 1..MAX_COMPONENT_CHARS |-> i + 4]) =>
          ListAfter(p) = [i \in 1..MAX_COMPONENT_CHARS |-> i + 5]

\* C19 witness: the 25th distinct character has been recorded under the key, by a
\* call that ran alone on the list 5..24
C19_Witness ==
  \E p \in Procs :
    /\ UpdateEnded(p) /\ RanAlone(p)
    /\ frames[p].character = MAX_COMPONENT_CHARS + 5
    /\ ListBefore(p) = [i \in 1..MAX_COMPONENT_CHARS |-> i + 4]
    /\ Len(ListAfter(p)) = MAX_COMPONENT_CHARS

(***************************************************************************)
(* pinyin.ts.  Here and in dictionary.ts a string is the sequence of its   *)
(* characters, each named by its letter, digit or code point ("sp" is a    *)
(* space).  ToneMarksTable is the table toneMarks; u00FC is the letter     *)
(* u-umlaut.                                                               *)
(***************************************************************************)
ToneMarksTable ==
  [a |-> <<"u0101", "u00E1", "u01CE", "u00E0", "a">>,
   e |-> <<"u0113", "u00E9", "u011B", "u00E8", "e">>,
   i |-> <<"u012B", "u00ED", "u01D0", "u00EC", "i">>,
   o |-> <<"u014D", "u00F3", "u01D2", "u00F2", "o">>,
   u |-> <<"u016B", "u00FA", "u01D4", "u00F9", "u">>,
   u00FC |-> <<"u01D6", "u01D8", "u01DA", "u01DC", "u00FC">>,
   v |-> <<"u01D6", "u01D8", "u01DA", "u01DC", "u00FC">>]

\* String.prototype.toUpperCase and toLowerCase, on the characters of the model
UpperPairs ==
  { <<"a", "A">>, <<"e", "E">>, <<"i", "I">>, <<"o", "O">>, <<"u", "U">>,
    <<"v", "V">>, <<"m", "M">>, <<"n", "N">>, <<"d", "D">>, <<"u00FC", "u00DC">>,
    <<"u0101", "u0100">>, <<"u00E1", "u00C1">>, <<"u01CE", "u01CD">>, <<"u00E0", "u00C0">>,
    <<"u0113", "u0112">>, <<"u00E9", "u00C9">>, <<"u011B", "u011A">>, <<"u00E8", "u00C8">>,
    <<"u012B", "u012A">>, <<"u00ED", "u00CD">>, <<"u01D0", "u01CF">>, <<"u00EC", "u00CC">>,
    <<"u014D", "u014C">>, <<"u00F3", "u00D3">>, <<"u01D2", "u01D1">>, <<"u00F2", "u00D2">>,
    <<"u016B", "u016A">>, <<"u00FA", "u00DA">>, <<"u01D4", "u01D3">>, <<"u00F9", "u00D9">>,
    <<"u01D6", "u01D5">>, <<"u01D8", "u01D7">>, <<"u01DA", "u01D9">>, <<"u01DC", "u01DB">> }

ToUpperCase(c) ==
  IF \E pr \in UpperPairs : pr[1] = c
  THEN (CHOOSE pr \in UpperPairs : pr[1] = c)[2]
  ELSE c

ToLowerCase(c) ==
  IF \E pr \in UpperPairs : pr[2] = c
  THEN (CHOOSE pr \in UpperPairs : pr[2] = c)[1]
  ELSE c

LowerStr(s) == [i \in DOMAIN s |-> ToLowerCase(s[i])]

\* the characters the class [a-zA-Z] and the letters u-umlaut of the pattern match
PinyinLetters ==
  {"a", "e", "i", "o", "u", "v", "m", "n", "d", "u00FC",
   "A", "E", "I", "O", "U", "V", "M", "N", "D", "u00DC"}
DigitChars == {"0", "1", "2", "3", "4", "5", "6", "7", "8", "9"}
DigitValue(c) == CHOOSE n \in 0..9 : ToString(n) = c

\* String.prototype.indexOf and lastIndexOf of one character; 0 when absent
\* (positions count from 1)
IndexOf(s, c) ==
  IF \E i \in DOMAIN s : s[i] = c
  THEN CHOOSE i \in DOMAIN s : s[i] = c /\ \A j \in 1..(i - 1) : s[j] # c
  ELSE 0

LastIndexOf(s, c) ==
  IF \E i \in DOMAIN s : s[i] = c
  THEN CHOOSE i \in DOMAIN s : s[i] = c /\ \A j \in (i + 1)..Len(s) : s[j] # c
  ELSE 0

\* lower.includes('ou')
IncludesOu(s) == \E i \in 1..(Len(s) - 1) : s[i] = "o" /\ s[i + 1] = "u"

\* the loop of getToneVowel over vowels from its k-th element on
RECURSIVE LastVowelFrom(_, _, _, _)
LastVowelFrom(lower, k, lastVowelIndex, lastVowel) ==
  LET vowels == <<"i", "o", "u", "u00FC", "v">> IN
  IF k > Len(vowels) THEN lastVowel
  ELSE LET idx == LastIndexOf(lower, vowels[k]) IN
       IF idx > lastVowelIndex
       THEN LastVowelFrom(lower, k + 1, idx, <<vowels[k]>>)
       ELSE LastVowelFrom(lower, k + 1, lastVowelIndex, lastVowel)

\* getToneVowel; <<>> is null
getToneVowel(syllable) ==
  LET lower == LowerStr(syllable) IN
  IF IndexOf(lower, "a") > 0 THEN <<"a">>
  ELSE IF IndexOf(lower, "e") > 0 THEN <<"e">>
  ELSE IF IncludesOu(lower) THEN <<"o">>
  ELSE LastVowelFrom(lower, 1, 0, <<>>)

\* syllable.match(/^([a-z u-umlaut v]+)(\d)?$/i): <<letters, toneNum>>, or <<>>
MatchSyllable(syllable) ==
  LET n == Len(syllable) IN
  IF n = 0 THEN <<>>
  ELSE IF \A i \in 1..n : syllable[i] \in PinyinLetters
  THEN <<syllable, <<>> >>
  ELSE IF n >= 2 /\ syllable[n] \in DigitChars
          /\ \A i \in 1..(n - 1) : syllable[i] \in PinyinLetters
  THEN <<SubSeq(syllable, 1, n - 1), <<syllable[n]>> >>
  ELSE <<>>

\* the function numericToToneMark maps over the syllables
ToneSyllable(syllable) ==
  LET match == MatchSyllable(syllable) IN
  IF match = <<>> THEN syllable
  ELSE LET letters == match[1]
           toneNum == match[2]
       IN IF toneNum = <<>> THEN letters
          ELSE LET tone == DigitValue(toneNum[1]) IN
               IF tone < 1 \/ tone > 5 THEN syllable
               ELSE LET vowel == getToneVowel(letters) IN
                    IF vowel = <<>> THEN letters
                    ELSE LET toneChar == ToneMarksTable[vowel[1]][tone]
                             vowelIndex == IndexOf(LowerStr(letters), vowel[1])
                             isUpperCase ==
                               letters[vowelIndex] = ToUpperCase(letters[vowelIndex])
                             replacement ==
                               IF isUpperCase THEN ToUpperCase(toneChar) ELSE toneChar
                         IN SubSeq(letters, 1, vowelIndex - 1) \o <<replacement>>
                              \o SubSeq(letters, vowelIndex + 1, Len(letters))

\* String.prototype.split(/\s+/): the pieces between the runs of spaces
RECURSIVE SplitSpaces(_, _)
SplitSpaces(s, piece) ==
  IF s = <<>> THEN <<piece>>
  ELSE IF Head(s) = "sp"
  THEN IF Len(s) >= 2 /\ s[2] = "sp" THEN SplitSpaces(Tail(s), piece)
       ELSE <<piece>> \o SplitSpaces(Tail(s), <<>>)
  ELSE SplitSpaces(Tail(s), Append(piece, Head(s)))

\* Array.prototype.join(' ')
RECURSIVE JoinSpaces(_)
JoinSpaces(pieces) ==
  IF Len(pieces) = 0 THEN <<>>
  ELSE IF Len(pieces) = 1 THEN pieces[1]
  ELSE pieces[1] \o <<"sp">> \o JoinSpaces(Tail(pieces))

numericToToneMark(pinyin) ==
  LET syllables == SplitSpaces(pinyin, <<>>)
  IN JoinSpaces([i \in DOMAIN syllables |-> ToneSyllable(syllables[i])])

\* normalizePinyin: u: and v become u-umlaut, U: and V its capital
RECURSIVE normalizePinyin(_)
normalizePinyin(pinyin) ==
  IF pinyin = <<>> THEN <<>>
  ELSE IF Len(pinyin) >= 2 /\ pinyin[1] = "u" /\ pinyin[2] = ":"
  THEN <<"u00FC">> \o normalizePinyin(SubSeq(pinyin, 3, Len(pinyin)))
  ELSE IF Len(pinyin) >= 2 /\ pinyin[1] = "U" /\ pinyin[2] = ":"
  THEN <<"u00DC">> \o normalizePinyin(SubSeq(pinyin, 3, Len(pinyin)))
  ELSE IF pinyin[1] = "v" THEN <<"u00FC">> \o normalizePinyin(Tail(pinyin))
  ELSE IF pinyin[1] = "V" THEN <<"u00DC">> \o normalizePinyin(Tail(pinyin))
  ELSE <<pinyin[1]>> \o normalizePinyin(Tail(pinyin))

parseCedictPinyin(pinyin) == numericToToneMark(normalizePinyin(pinyin))

(***************************************************************************)
(* PinyinSpec: calls of numericToToneMark, one at a time, on one syllable  *)
(* of up to MaxSyllableLen letters with or without a digit, and on a few   *)
(* strings of two syllables.                                               *)
(***************************************************************************)
SeqsUpTo(S, n) == UNION {[1..k -> S] : k \in 0..n}

InputLetters == {"a", "e", "i", "o", "u", "u00FC", "v", "m", "A"}
InputDigits == {"0", "1", "2", "3", "4", "5", "6"}

PinyinInputs ==
  { l \o d : l \in SeqsUpTo(InputLetters, MaxSyllableLen) \ {<<>>},
             d \in {<<>>} \cup {<<c>> : c \in InputDigits} }
  \cup { <<"n", "i", "3", "sp", "m", "a", "o", "3">>,
         <<"m", "a", "5", "sp", "sp", "n", "u", ":", "3">>,
         <<"sp", "d", "u", "i", "4">> }

\* numericToToneMark(pinyin) runs; it has no await
NumericToToneMarkCall(p, pinyin) ==
  /\ FreeFrame(1, p)
  /\ frames' = [frames EXCEPT ![p] =
       [pc |-> "toneDone", op |-> "tone", pinyin |-> pinyin,
        result |-> numericToToneMark(pinyin)]]
  /\ UNCHANGED <<storeVars, componentMap, cedictData>>

NumericToToneMarkReturn(p) ==
  /\ frames[p].pc = "toneDone"
  /\ frames' = [frames EXCEPT ![p] = Idle]
  /\ UNCHANGED <<storeVars, componentMap, cedictData>>

PinyinNext ==
  \/ \E p \in Procs, pinyin \in PinyinInputs : NumericToToneMarkCall(p, pinyin)
  \/ \E p \in Procs : NumericToToneMarkReturn(p)

PinyinSpec == Init /\ [][PinyinNext]_vars

\* the tone-t form of the letter c, in the case of c
ToneForm(c, t) ==
  LET mark == ToneMarksTable[ToLowerCase(c)][t]
  IN IF c = ToUpperCase(c) THEN ToUpperCase(mark) ELSE mark

ToneVowels == {"i", "o", "u", "u00FC", "v"}

\* position k of letters holds the tone-bearing vowel: 'a' if present, else 'e',
\* else the 'o' of 'ou', else the rightmost of i, o, u, u-umlaut, v
Designated(letters, k) ==
  LET lower == LowerStr(letters) IN
  IF IndexOf(lower, "a") > 0 THEN lower[k] = "a"
  ELSE IF IndexOf(lower, "e") > 0 THEN lower[k] = "e"
  ELSE IF IncludesOu(lower) THEN lower[k] = "o" /\ k < Len(lower) /\ lower[k + 1] = "u"
  ELSE /\ lower[k] \in ToneVowels
       /\ \A j \in (k + 1)..Len(lower) : lower[j] \notin ToneVowels

IsToneSyllable(pinyin) ==
  /\ Len(pinyin) >= 2
  /\ pinyin[Len(pinyin)] \in {"1", "2", "3", "4", "5"}
  /\ \A i \in 1..(Len(pinyin) - 1) : pinyin[i] \in PinyinLetters

\* C20: for a syllable of letters followed by a tone digit t in 1..5, the result of
\* numericToToneMark is the letters with the letter at the designated position
\* replaced by its tone-t form (tone 5: the bare vowel) and nothing else changed.
C20_ToneOnDesignatedVowel ==
  \A p \in Procs :
    (frames[p].pc = "toneDone" /\ IsToneSyllable(frames[p].pinyin)) =>
      LET pinyin == frames[p].pinyin
          letters == SubSeq(pinyin, 1, Len(pinyin) - 1)
          t == DigitValue(pinyin[Len(pinyin)])
      IN \E k \in DOMAIN letters :
           /\ Designated(letters, k)
           /\ frames[p].result = [letters EXCEPT ![k] = ToneForm(letters[k], t)]

(***************************************************************************)
(* dictionary.ts: definitions.  A definition (gloss) is the sequence of    *)
(* its words, written without brackets and commas; the patterns of         *)
(* isVariantDefinition and scoreDefinition test its first words, the words *)
(* it holds and its length.  WordLen is the length of a word, LetterWords  *)
(* the words that begin with a letter.                                     *)
(***************************************************************************)
WordLen ==
  [w \in {"variant", "of", "see", "old", "archaic", "same", "as", "literary",
          "dialect", "old-fashioned", "Taiwan", "pr.", "also", "abbr.",
          "abbreviation", "euphemism", "lit.", "fig.", "CL:X", "to", "a", "the",
          "measure", "word", "for", "x", "X", "(no", "definition", "found)",
          "mum", "mama", "milk", "long"} |->
     CASE w \in {"a", "x", "X"} -> 1
       [] w \in {"of", "as", "to"} -> 2
       [] w \in {"see", "old", "the", "pr.", "for", "(no", "mum"} -> 3
       [] w \in {"same", "also", "lit.", "fig.", "CL:X", "word", "mama", "milk", "long"} -> 4
       [] w \in {"abbr."} -> 5
       [] w \in {"Taiwan", "found)"} -> 6
       [] w \in {"variant", "archaic", "dialect", "measure"} -> 7
       [] w \in {"literary"} -> 8
       [] w \in {"euphemism"} -> 9
       [] w \in {"definition"} -> 10
       [] w \in {"abbreviation"} -> 12
       [] w \in {"old-fashioned"} -> 13]

LetterWords == DOMAIN WordLen \ {"X"}

\* def.length: the words and the spaces between them
RECURSIVE DefLength(_)
DefLength(def) ==
  IF def = <<>> THEN 0
  ELSE IF Len(def) = 1 THEN WordLen[def[1]]
  ELSE WordLen[def[1]] + 1 + DefLength(Tail(def))

StartsWith(def, words) ==
  Len(def) >= Len(words) /\ SubSeq(def, 1, Len(words)) = words

HasWord(def, w) == \E i \in DOMAIN def : def[i] = w

HasWords(def, w1, w2) ==
  \E i \in 1..(Len(def) - 1) : def[i] = w1 /\ def[i + 1] = w2

\* /^(variant of|see |old variant|archaic variant|same as)/
isVariantDefinition(def) ==
  \/ StartsWith(def, <<"variant", "of">>)
  \/ (StartsWith(def, <<"see">>) /\ Len(def) >= 2)
  \/ StartsWith(def, <<"old", "variant">>)
  \/ StartsWith(def, <<"archaic", "variant">>)
  \/ StartsWith(def, <<"same", "as">>)

scoreDefinition(def) ==
  100
  - (IF isVariantDefinition(def) THEN 80 ELSE 0)
  - (IF \E w \in {"archaic", "literary", "dialect", "old-fashioned"} : HasWord(def, w)
     THEN 40 ELSE 0)
  \* 'Taiwan pr.' and 'also pr.' need a letter or digit right after the dot
  \* for the closing \b: not met by a word that a space or the end follows
  - (IF HasWords(def, "Taiwan", "variant") THEN 30 ELSE 0)
  - (IF StartsWith(def, <<"abbr.">>) \/ StartsWith(def, <<"abbreviation">>)
     THEN 25 ELSE 0)
  - (IF HasWord(def, "euphemism") THEN 20 ELSE 0)
  - (IF StartsWith(def, <<"lit.">>) /\ Len(def) >= 2 THEN 15 ELSE 0)
  - (IF StartsWith(def, <<"fig.">>) /\ Len(def) >= 2 THEN 10 ELSE 0)
  - (IF StartsWith(def, <<"CL:X">>) THEN 35 ELSE 0)
  - (IF DefLength(def) < 5 THEN 20 ELSE 0)
  + (IF StartsWith(def, <<"to">>) /\ Len(def) >= 2 /\ def[2] \in LetterWords
     THEN 10 ELSE 0)
  + (IF StartsWith(def, <<"a">>) /\ Len(def) >= 2 /\ def[2] \in LetterWords
     THEN 5 ELSE 0)
  + (IF StartsWith(def, <<"the">>) /\ Len(def) >= 2 /\ def[2] \in LetterWords
     THEN 5 ELSE 0)

\* [...new Set(allDefinitions)]: the first occurrence of each, in order
RECURSIVE Dedup(_, _)
Dedup(defs, seen) ==
  IF defs = <<>> THEN seen
  ELSE IF \E i \in DOMAIN seen : seen[i] = Head(defs) THEN Dedup(Tail(defs), seen)
  ELSE Dedup(Tail(defs), Append(seen, Head(defs)))

\* sort((a, b) => scoreDefinition(b) - scoreDefinition(a)): stable, higher first
RECURSIVE InsertByScore(_, _)
InsertByScore(sorted, def) ==
  IF sorted = <<>> THEN <<def>>
  ELSE IF scoreDefinition(Head(sorted)) >= scoreDefinition(def)
  THEN <<Head(sorted)>> \o InsertByScore(Tail(sorted), def)
  ELSE <<def>> \o sorted

RECURSIVE SortByScore(_, _)
SortByScore(defs, sorted) ==
  IF defs = <<>> THEN sorted
  ELSE SortByScore(Tail(defs), InsertByScore(sorted, Head(defs)))

RECURSIVE PoolDefinitions(_)
PoolDefinitions(entries) ==
  IF entries = <<>> THEN <<>> ELSE Head(entries).d \o PoolDefinitions(Tail(entries))

RealDefs(entry) == Len(SelectSeq(entry.d, LAMBDA d : ~isVariantDefinition(d)))

\* the loop of selectBestEntry from the k-th entry on
RECURSIVE BestEntryFrom(_, _, _, _)
BestEntryFrom(entries, k, bestEntry, bestScore) ==
  IF k > Len(entries) THEN bestEntry
  ELSE IF RealDefs(entries[k]) > bestScore
  THEN BestEntryFrom(entries, k + 1, entries[k], RealDefs(entries[k]))
  ELSE BestEntryFrom(entries, k + 1, bestEntry, bestScore)

selectBestEntry(entries) ==
  LET allDefinitions == PoolDefinitions(entries)
      sortedDefs == SortByScore(Dedup(allDefinitions, <<>>), <<>>)
  IN [entry |-> BestEntryFrom(entries, 1, entries[1], 0),
      allDefinitions |-> IF Len(sortedDefs) > 0 THEN sortedDefs ELSE allDefinitions]

(***************************************************************************)
(* SelectSpec: calls of selectBestEntry, one at a time, on the senses of   *)
(* one headword.                                                           *)
(***************************************************************************)
Glosses ==
  { <<"variant", "of", "X">>,
    <<"a", "measure", "word">>,
    <<"see", "X">>,
    <<"to", "x">>,
    <<"CL:X">>,
    <<"archaic", "variant", "of", "X">>,
    <<"literary", "Taiwan", "pr.", "x">>,
    <<"abbr.", "for", "X", "dialect", "euphemism">> }

Sense(d) == [t |-> <<"u500B">>, s |-> <<"u4E2A">>, p |-> <<"g", "e", "4">>, d |-> d]

SenseLists ==
  { [i \in DOMAIN ds |-> Sense(ds[i])] :
      ds \in SeqsUpTo(SeqsUpTo(Glosses, MaxGlosses), MaxSenses) \ {<<>>} }

\* selectBestEntry(entries) runs; it has no await
SelectBestEntryCall(p, entries) ==
  /\ FreeFrame(1, p)
  /\ frames' = [frames EXCEPT ![p] =
       [pc |-> "selectDone", op |-> "select", entries |-> entries,
        result |-> selectBestEntry(entries)]]
  /\ UNCHANGED <<storeVars, componentMap, cedictData>>

SelectBestEntryReturn(p) ==
  /\ frames[p].pc = "selectDone"
  /\ frames' = [frames EXCEPT ![p] = Idle]
  /\ UNCHANGED <<storeVars, componentMap, cedictData>>

SelectNext ==
  \/ \E p \in Procs, entries \in SenseLists : SelectBestEntryCall(p, entries)
  \/ \E p \in Procs : SelectBestEntryReturn(p)

SelectSpec == Init /\ [][SelectNext]_vars

\* C18: the definitions selectBestEntry returns are the glosses of all senses, each
\* once, and every gloss that matches the reference pattern comes after every
\* gloss that does not.
C18_ReferenceGlossesLast ==
  \A p \in Procs :
    frames[p].pc = "selectDone" =>
      LET defs == frames[p].result.allDefinitions
          pool == PoolDefinitions(frames[p].entries)
      IN /\ {defs[i] : i \in DOMAIN defs} = {pool[i] : i \in DOMAIN pool}
         /\ \A i, j \in DOMAIN defs : defs[i] = defs[j] => i = j
         /\ \A i, j \in DOMAIN defs :
              (isVariantDefinition(defs[i]) /\ ~isVariantDefinition(defs[j])) => j < i

(***************************************************************************)
(* dictionary.ts: normalization, the dictionary index and segmentation.    *)
(* The characters of a text: u5988, u5ABD (the traditional form of u5988), *)
(* u5976, u4E2D and u8C48 are in U+4E00..U+9FFF; "a", "sp" (a space) and   *)
(* uF900 (which NFC maps to u8C48) are not.                                *)
(***************************************************************************)
HanRange == {"u4E2D", "u8C48", "u5988", "u5ABD", "u5976"}

isChinese(char) == char \in HanRange

\* String.prototype.trim
RECURSIVE TrimStart(_)
TrimStart(s) == IF s # <<>> /\ Head(s) = "sp" THEN TrimStart(Tail(s)) ELSE s

RECURSIVE TrimEnd(_)
TrimEnd(s) ==
  IF s # <<>> /\ s[Len(s)] = "sp" THEN TrimEnd(SubSeq(s, 1, Len(s) - 1)) ELSE s

\* replace(/^[^一-鿿]+/, '') and replace(/[^一-鿿]+$/, '')
RECURSIVE StripStart(_)
StripStart(s) == IF s # <<>> /\ ~isChinese(Head(s)) THEN StripStart(Tail(s)) ELSE s

RECURSIVE StripEnd(_)
StripEnd(s) ==
  IF s # <<>> /\ ~isChinese(s[Len(s)]) THEN StripEnd(SubSeq(s, 1, Len(s) - 1)) ELSE s

NfcText(s) == [i \in DOMAIN s |-> NfcChar(s[i])]

normalizeText(text) == NfcText(StripEnd(StripStart(TrimEnd(TrimStart(text)))))

\* buildCedict: every line is filed under its simplified form and, when it differs,
\* under its traditional form
RECURSIVE BuildCedict(_, _)
BuildCedict(lines, entries) ==
  IF lines = <<>> THEN entries
  ELSE LET entry == Head(lines)
           underS == Put(entries, entry.s,
                         IF entry.s \in DOMAIN entries
                         THEN Append(entries[entry.s], entry) ELSE <<entry>>)
           underT == IF entry.t # entry.s
                     THEN Put(underS, entry.t,
                              IF entry.t \in DOMAIN underS
                              THEN Append(underS[entry.t], entry) ELSE <<entry>>)
                     ELSE underS
       IN BuildCedict(Tail(lines), underT)

\* cedict[key]: the senses filed under key, <<>> when there are none
Senses(cedict, key) == IF key \in DOMAIN cedict THEN cedict[key] ELSE <<>>

\* the DictionaryEntry made of the senses filed under a key
DictionaryEntryOf(entries) ==
  LET best == selectBestEntry(entries) IN
    [traditional |-> best.entry.t, simplified |-> best.entry.s,
     pinyin |-> best.entry.p, pinyinTones |-> parseCedictPinyin(best.entry.p),
     definitions |-> best.allDefinitions]

lookupWord_NoExactMatch(cedict, text) == <<>>

\* lookupWord, after its loadCedict: <<entry>>, or <<>> for null
lookupWord(cedict, text) ==
  LET normalized == normalizeText(text) IN
  IF normalized = <<>> THEN <<>>
  ELSE IF Len(Senses(cedict, normalized)) > 0
  THEN <<DictionaryEntryOf(Senses(cedict, normalized))>>
  ELSE <<>>

RECURSIVE LongestMatch_Shortest(_, _, _, _)
LongestMatch_Shortest(cedict, normalized, pos, len) ==
  IF len < 1 THEN 0
  ELSE LET shorter == LongestMatch_Shortest(cedict, normalized, pos, len - 1) IN
       IF shorter > 0 THEN shorter
       ELSE IF Len(Senses(cedict, SubSeq(normalized, pos + 1, pos + len))) > 0 THEN len
       ELSE 0

\* the for loop of lookupWithSegmentation at pos (counted from 0): the length of
\* the longest headword that starts there, of len characters or fewer; 0 if none
RECURSIVE LongestMatch(_, _, _, _)
LongestMatch(cedict, normalized, pos, len) ==
  IF len < 1 THEN 0
  ELSE IF Len(Senses(cedict, SubSeq(normalized, pos + 1, pos + len))) > 0 THEN len
  ELSE LongestMatch(cedict, normalized, pos, len - 1)

NoDefinitionEntry(char) ==
  [traditional |-> <<char>>, simplified |-> <<char>>, pinyin |-> <<>>,
   pinyinTones |-> <<>>, definitions |-> << <<"(no", "definition", "found)">> >>]

\* one iteration of the while loop of lookupWithSegmentation: pos and results after
SegmentStep(cedict, normalized, pos, results) ==
  LET len == LongestMatch(cedict, normalized, pos,
                          Min(MAX_PROBE_LENGTH, Len(normalized) - pos))
  IN IF len > 0
     THEN [pos |-> pos + len,
           results |-> Append(results, DictionaryEntryOf(
                         Senses(cedict, SubSeq(normalized, pos + 1, pos + len))))]
     ELSE [pos |-> pos + 1,
           results |-> IF isChinese(normalized[pos + 1])
                       THEN Append(results, NoDefinitionEntry(normalized[pos + 1]))
                       ELSE results]

\* getCharacterInfo, after loadUnihan and loadRadicals
getCharacterInfo(unihan, radicals, char) ==
  IF char \in DOMAIN unihan
  THEN [character |-> char, radical |-> unihan[char].r,
        radicalMeaning |-> IF unihan[char].r \in DOMAIN radicals
                           THEN <<radicals[unihan[char].r]>> ELSE <<>>,
        strokeCount |-> unihan[char].sc]
       @@ (IF "c" \in DOMAIN unihan[char]
           THEN [components |-> unihan[char].c] ELSE <<>>)
  ELSE [character |-> char, radical |-> char, strokeCount |-> 0]

\* performLookup: the characters of a word that isChinese accepts, resolved
CharacterInfos(unihan, radicals, word) ==
  LET han == SelectSeq(word, isChinese)
  IN [i \in DOMAIN han |-> getCharacterInfo(unihan, radicals, han[i])]

\* performLookup: the segment made of an entry
SegmentOf(entry, unihan, radicals, isKnown) ==
  [word |-> entry.simplified, pinyin |-> entry.pinyin,
   pinyinTones |-> entry.pinyinTones, definitions |-> entry.definitions,
   characters |-> CharacterInfos(unihan, radicals, entry.simplified),
   isKnown |-> isKnown]

loadCedict_NoCatch(cache, fetched) ==
  IF cache # <<>> THEN [raised |-> FALSE, value |-> cache[1], cache |-> cache]
  ELSE IF fetched # <<>>
  THEN [raised |-> FALSE, value |-> fetched[1], cache |-> fetched]
  ELSE [raised |-> TRUE, value |-> EmptyMap, cache |-> cache]

\* loadCedict: cache is cedictData (<<>> for null); fetched is what fetch and
\* response.json give, <<>> when either rejects.  value is what the call returns,
\* cache what it leaves in cedictData; raised tells that the call rejects.
loadCedict(cache, fetched) ==
  IF cache # <<>> THEN [raised |-> FALSE, value |-> cache[1], cache |-> cache]
  ELSE IF fetched # <<>>
  THEN [raised |-> FALSE, value |-> fetched[1], cache |-> fetched]
  ELSE [raised |-> FALSE, value |-> EmptyMap, cache |-> cache]

(***************************************************************************)
(* The dictionary files.  CedictLines are lines of CC-CEDICT: Ma is filed  *)
(* the first is filed under u5988 and under its traditional form u5ABD,    *)
(* the second has one form, the third is a word of two characters with two *)
(* forms, and the fourth is a headword of seven characters, one more than  *)
(* lookupWithSegmentation probes.  cedict.json is built from the first k   *)
(* lines.                                                                  *)
(***************************************************************************)
LongSimplified == <<"u5988", "u5988", "u5976", "u5976", "u5988", "u5988", "u5976">>
LongTraditional == <<"u5ABD", "u5ABD", "u5976", "u5976", "u5ABD", "u5ABD", "u5976">>

CedictLines ==
  << [t |-> <<"u5ABD">>, s |-> <<"u5988">>, p |-> <<"m", "a", "1">>,
      d |-> << <<"mum">> >>],
     [t |-> <<"u5976">>, s |-> <<"u5976">>, p |-> <<"n", "a", "i", "3">>,
      d |-> << <<"milk">>, <<"variant", "of", "X">> >>],
     [t |-> <<"u5ABD", "u5ABD">>, s |-> <<"u5988", "u5988">>,
      p |-> <<"m", "a", "1", "sp", "m", "a", "5">>, d |-> << <<"mama">> >>],
     [t |-> LongTraditional, s |-> LongSimplified, p |-> <<"m", "a", "1">>,
      d |-> << <<"long">> >>] >>

CedictFiles ==
  { BuildCedict(SubSeq(CedictLines, 1, k), EmptyMap) : k \in 0..Len(CedictLines) }

\* what a fetch of data/cedict.json can give: nothing, or the file
Fetched(files) == {<<>>} \cup {<<file>> : file \in files}

\* unihan.json: u5988 with radical and components, u5976 without components, u8C48
\* with the empty radical the build writes by default; u5ABD is not in it
UnihanData ==
  [c \in {"u5988", "u5976", "u8C48"} |->
     CASE c = "u5988" -> [r |-> "u5973", sc |-> 6, c |-> <<"u5973", "u9A6C">>]
       [] c = "u5976" -> [r |-> "u5973", sc |-> 5]
       [] OTHER -> [r |-> "", sc |-> 0]]

RadicalData == [c \in {"u5973"} |-> "woman"]

(***************************************************************************)
(* performLookup and lookupWithSegmentation, step by step.  frames[p]      *)
(* holds the call: cedict is what the loadCedict of lookupWithSegmentation *)
(* returned, cedictWord what the loadCedict of lookupWord returned, pos    *)
(* and results the locals of the while loop (one step an iteration: the    *)
(* loop has no await, and here no other call is in flight), segments the   *)
(* segments performLookup builds.                                          *)
(***************************************************************************)
SegmentFields(text) ==
  [text |-> text, normalized |-> <<>>, cedict |-> EmptyMap, cedictWord |-> EmptyMap,
   pos |-> 0, results |-> <<>>, segments |-> <<>>]

\* performLookup(text) is called by itself: checkKnown is its default
PerformLookupCall(p, text) ==
  /\ FreeFrame(1, p)
  /\ frames' = [frames EXCEPT ![p] =
       [pc |-> "loadCedict", op |-> "perform", dev |-> "A"] @@ SegmentFields(text)]
  /\ UNCHANGED <<storeVars, componentMap, cedictData>>

\* lookupWithSegmentation: loadCedict resolves, normalizeText, the empty check
LoadCedictStep(p, files) ==
  /\ frames[p].pc = "loadCedict"
  /\ \E fetched \in IF cedictData # <<>> THEN {<<>>} ELSE Fetched(files) :
       LET loaded == loadCedict(cedictData, fetched)
           normalized == normalizeText(frames[p].text)
       IN IF loaded.raised
          THEN /\ frames' = [frames EXCEPT ![p].pc = "raised"]
               /\ UNCHANGED cedictData
          ELSE /\ cedictData' = loaded.cache
               /\ frames' = [frames EXCEPT
                    ![p].cedict = loaded.value,
                    ![p].normalized = normalized,
                    ![p].pc = IF normalized = <<>> THEN "segDone" ELSE "lookupWord"]
  /\ UNCHANGED <<storeVars, componentMap>>

\* lookupWord(normalized): its own loadCedict resolves; an exact match is returned
LookupWordStep(p, files) ==
  /\ frames[p].pc = "lookupWord"
  /\ \E fetched \in IF cedictData # <<>> THEN {<<>>} ELSE Fetched(files) :
       LET loaded == loadCedict(cedictData, fetched)
           exactMatch == lookupWord(loaded.value, frames[p].normalized)
       IN IF loaded.raised
          THEN /\ frames' = [frames EXCEPT ![p].pc = "raised"]
               /\ UNCHANGED cedictData
          ELSE /\ cedictData' = loaded.cache
               /\ frames' = [frames EXCEPT
                    ![p].cedictWord = loaded.value,
                    ![p].results = exactMatch,
                    ![p].pc = IF exactMatch # <<>> THEN "segDone" ELSE "segLoop"]
  /\ UNCHANGED <<storeVars, componentMap>>

\* while (pos < normalized.length): one iteration
SegmentLoopStep(p) ==
  /\ frames[p].pc = "segLoop"
  /\ frames[p].pos < Len(frames[p].normalized)
  /\ LET f == frames[p]
         after == SegmentStep(f.cedict, f.normalized, f.pos, f.results)
     IN frames' = [frames EXCEPT ![p].pos = after.pos, ![p].results = after.results]
  /\ UNCHANGED <<storeVars, componentMap, cedictData>>

\* the loop ends; lookupWithSegmentation returns results
SegmentLoopEnd(p) ==
  /\ frames[p].pc = "segLoop"
  /\ frames[p].pos >= Len(frames[p].normalized)
  /\ frames' = [frames EXCEPT ![p].pc = "segDone"]
  /\ UNCHANGED <<storeVars, componentMap, cedictData>>

isWordKnown_AtLeastOne(vocabulary, id) ==
  /\ id \in DOMAIN vocabulary
  /\ vocabulary[id].lookupCount > 0

\* isWordKnown(word): getVocabularyEntry and the lookupCount test
isWordKnown(vocabulary, id) ==
  /\ id \in DOMAIN vocabulary
  /\ vocabulary[id].lookupCount > 1

\* a string of dictionary.ts as storage.ts holds it
TextRuns(text) == Canon([i \in DOMAIN text |-> Run(text[i], 1)])

\* a gloss as storage.ts holds it: its words, a space between two
RECURSIVE DefRuns(_)
DefRuns(def) ==
  IF def = <<>> THEN <<>>
  ELSE IF Len(def) = 1 THEN <<Run(def[1], WordLen[def[1]])>>
  ELSE <<Run(def[1], WordLen[def[1]]), Run("sp", 1)>> \o DefRuns(Tail(def))

\* performLookup: loadHsk, and for each entry getCharacterInfo of its characters
\* (unihan is what loadUnihan returns: the file, or {} when the load fails) and
\* checkKnown
PerformLookupSegments(p) ==
  /\ frames[p].pc = "segDone"
  /\ \E unihan \in {UnihanData, EmptyMap} :
       LET f == frames[p]
           known(entry) ==
             IF f.op = "lookup"
             THEN isWordKnown(store[f.dev], generateWordId(TextRuns(entry.simplified)))
             ELSE FALSE
       IN frames' = [frames EXCEPT
            ![p].segments =
               [i \in DOMAIN f.results |->
                  SegmentOf(f.results[i], unihan, RadicalData, known(f.results[i]))],
            ![p].pc = "plDone"]
  /\ UNCHANGED <<storeVars, componentMap, cedictData>>

\* performLookup, called by itself, returns
PerformLookupReturn(p) ==
  /\ frames[p].pc = "plDone"
  /\ frames[p].op = "perform"
  /\ frames' = [frames EXCEPT ![p] = Idle]
  /\ UNCHANGED <<storeVars, componentMap, cedictData>>

(***************************************************************************)
(* SegmentSpec: calls of performLookup, one at a time, on every text of up *)
(* to MaxTextLen characters and on texts around the seven-character        *)
(* headword, with cedict.json any of CedictFiles.                          *)
(***************************************************************************)
TextChars == {"u5988", "u5ABD", "u5976", "uF900", "sp"}

Texts ==
  SeqsUpTo(TextChars, MaxTextLen)
  \cup {LongSimplified, LongTraditional, <<"sp", "a">> \o LongSimplified \o <<"a">>,
        LongSimplified \o <<"u5976">>}

SegmentNext ==
  \/ \E p \in Procs, text \in Texts : PerformLookupCall(p, text)
  \/ \E p \in Procs : LoadCedictStep(p, CedictFiles)
  \/ \E p \in Procs : LookupWordStep(p, CedictFiles)
  \/ \E p \in Procs : SegmentLoopStep(p)
  \/ \E p \in Procs : SegmentLoopEnd(p)
  \/ \E p \in Procs : PerformLookupSegments(p)
  \/ \E p \in Procs : PerformLookupReturn(p)

SegmentSpec == Init /\ [][SegmentNext]_vars

\* text, from its first character on, is the words in order, with characters that
\* are not Han skipped between them
RECURSIVE Reconstructs(_, _)
Reconstructs(text, words) ==
  IF text = <<>> THEN words = <<>>
  ELSE \/ /\ words # <<>>
          /\ Head(words) # <<>>
          /\ Len(Head(words)) <= Len(text)
          /\ SubSeq(text, 1, Len(Head(words))) = Head(words)
          /\ Reconstructs(SubSeq(text, Len(Head(words)) + 1, Len(text)), Tail(words))
       \/ /\ ~isChinese(Head(text))
          /\ Reconstructs(Tail(text), words)

\* C15: when performLookup has built its segments, their words in order, with the
\* skipped characters that are not Han put back, are the normalized input
C15_SegmentsReconstructInput ==
  \A p \in Procs :
    frames[p].pc = "plDone" =>
      Reconstructs(normalizeText(frames[p].text),
                   [i \in DOMAIN frames[p].segments |-> frames[p].segments[i].word])

\* C16: when lookupWithSegmentation returns and the dictionary lookupWord read files
\* senses under the whole normalized input, the result is the one entry of these
\* senses
C16_WholePhrasePriority ==
  \A p \in Procs :
    LET f == frames[p] IN
    (f.pc \in {"segDone", "plDone"} /\ f.normalized # <<>>
      /\ Senses(f.cedictWord, f.normalized) # <<>>)
      => f.results = <<DictionaryEntryOf(Senses(f.cedictWord, f.normalized))>>

\* a whole-phrase match of more than six characters whose first character and whose
\* first two characters are headwords too
C16_Witness ==
  \E p \in Procs :
    LET f == frames[p] IN
    /\ f.pc = "segDone"
    /\ Len(f.normalized) > MAX_PROBE_LENGTH
    /\ Senses(f.cedictWord, f.normalized) # <<>>
    /\ Senses(f.cedictWord, SubSeq(f.normalized, 1, 1)) # <<>>
    /\ Senses(f.cedictWord, SubSeq(f.normalized, 1, 2)) # <<>>
    /\ Len(f.results) = 1

(***************************************************************************)
(* service-worker.ts: handleLookup(text, context, sourceUrl, skipSave).    *)
(* An absent argument is <<>>, a given one <<value>>.  The frame walks the *)
(* segments (seg), the characters of a segment (ch) and the radical and    *)
(* components of a character (comp).  translateToEnglish, which runs       *)
(* beside performLookup, catches its errors and touches no state here.     *)
(* store0, replica0 and nSaved0 keep what the stores held when the lookup  *)
(* began; the code does not have them, the properties below read them.     *)
(***************************************************************************)
ShouldSave_Always(skipSave) == TRUE

\* if (!skipSave)
ShouldSave(skipSave) == ~(skipSave # <<>> /\ skipSave[1])

\* the components handleLookup records a character under: its radical unless that
\* is the empty string, then its components if it has any
Pairs(charInfo) ==
  (IF charInfo.radical # "" THEN <<charInfo.radical>> ELSE <<>>)
  \o (IF "components" \in DOMAIN charInfo THEN charInfo.components ELSE <<>>)

\* from (ch, comp) on, the first character and component there is an update for;
\* ch is past the characters when there is none
RECURSIVE NextPair(_, _, _)
NextPair(characters, ch, comp) ==
  IF ch > Len(characters) THEN [ch |-> ch, comp |-> 1]
  ELSE IF comp > Len(Pairs(characters[ch])) THEN NextPair(characters, ch + 1, 1)
  ELSE [ch |-> ch, comp |-> comp]

\* the frame at the top of the body of for (const segment of result.segments)
EnterSegment(f, seg) ==
  LET first == IF seg <= Len(f.segments)
               THEN NextPair(f.segments[seg].characters, 1, 1)
               ELSE [ch |-> 1, comp |-> 1]
  IN [f EXCEPT !.seg = seg, !.ch = first.ch, !.comp = first.comp, !.pc = "hl"]

\* context ? { sentence: context, sourceUrl: sourceUrl || '' } : undefined
SaveContext(context, sourceUrl) ==
  IF context # <<>> /\ context[1] # <<>>
  THEN <<[sentence |-> context[1],
          sourceUrl |-> IF sourceUrl # <<>> THEN sourceUrl[1] ELSE <<>>]>>
  ELSE <<>>

\* the arguments of saveVocabularyEntry for a segment
SegmentLookup(segment, context, sourceUrl) ==
  [word |-> TextRuns(segment.word), pinyin |-> TextRuns(segment.pinyinTones),
   definitions |-> [i \in DOMAIN segment.definitions |-> DefRuns(segment.definitions[i])],
   characters |-> segment.characters,
   context |-> SaveContext(context, sourceUrl)]

\* handleLookup is called: performLookup begins
HandleLookupCall(p, d, text, context, sourceUrl, skipSave) ==
  /\ FreeFrame(1, p)
  /\ nCalls + 1 + (IF ShouldSave(skipSave) THEN Len(text) ELSE 0) <= MaxCalls
  /\ nCalls' = nCalls + 1
  /\ frames' = [frames EXCEPT ![p] =
       [pc |-> "loadCedict", op |-> "lookup", dev |-> d, context |-> context,
        sourceUrl |-> sourceUrl, skipSave |-> skipSave, seg |-> 1, ch |-> 1,
        comp |-> 1, seenWith |-> EmptyMap, component |-> "", character |-> "",
        chars |-> <<>>, store0 |-> store, replica0 |-> replica, nSaved0 |-> nSaved]
       @@ SegmentFields(text)]
  /\ UNCHANGED <<store, idbq, replica, clock, calls, nSaved, passes>>
  /\ UNCHANGED <<componentMap, cedictData>>

\* Promise.all resolves: performLookup and translateToEnglish have returned
HandleLookupResume(p) ==
  /\ frames[p].pc = "plDone"
  /\ frames[p].op = "lookup"
  /\ frames' = [frames EXCEPT ![p] = EnterSegment(@, 1)]
  /\ UNCHANGED <<storeVars, componentMap, cedictData>>

\* updateComponentMap(radical or comp, charInfo.character) is called
HandleLookupUpdateCall(p) ==
  /\ frames[p].pc = "hl"
  /\ frames[p].seg <= Len(frames[p].segments)
  /\ frames[p].ch <= Len(frames[p].segments[frames[p].seg].characters)
  /\ LET f == frames[p]
         charInfo == f.segments[f.seg].characters[f.ch]
     IN frames' = [frames EXCEPT
          ![p].component = Pairs(charInfo)[f.comp],
          ![p].character = charInfo.character,
          ![p].chars = <<>>,
          ![p].pc = "umGet"]
  /\ UNCHANGED <<storeVars, componentMap, cedictData>>

\* updateComponentMap has returned; getCharactersWithComponent resolves
HandleLookupSeenWith(p) ==
  /\ frames[p].pc = "umDone"
  /\ frames[p].op = "lookup"
  /\ LET f == frames[p]
         existing == Get(componentMap[f.dev], f.component)
         next == NextPair(f.segments[f.seg].characters, f.ch, f.comp + 1)
     IN frames' = [frames EXCEPT
          ![p].seenWith = Put(@, f.component,
                              IF existing # <<>> THEN existing[1] ELSE <<>>),
          ![p].ch = next.ch, ![p].comp = next.comp, ![p].pc = "hl"]
  /\ UNCHANGED <<storeVars, componentMap, cedictData>>

\* the characters of the segment are done and !skipSave: saveVocabularyEntry is called
HandleLookupSaveCall(p) ==
  /\ frames[p].pc = "hl"
  /\ frames[p].seg <= Len(frames[p].segments)
  /\ frames[p].ch > Len(frames[p].segments[frames[p].seg].characters)
  /\ ShouldSave(frames[p].skipSave)
  /\ SaveCall(1, p, frames[p].dev,
              SegmentLookup(frames[p].segments[frames[p].seg], frames[p].context,
                            frames[p].sourceUrl))
  /\ frames' = [frames EXCEPT ![p].pc = "saving"]
  /\ UNCHANGED <<componentMap, cedictData>>

\* saveVocabularyEntry, called by handleLookup, takes a step
HandleLookupSaveStep(p) ==
  /\ frames[p].pc = "saving"
  /\ SaveDbGet(p) \/ SaveDbPut(p) \/ SyncToChromeGet(p) \/ SyncToChromeSet(p)
  /\ UNCHANGED lookupVars

\* saveVocabularyEntry returns to handleLookup: the next segment
HandleLookupSaveReturn(p) ==
  /\ frames[p].pc = "saving"
  /\ SaveReturn(p)
  /\ frames' = [frames EXCEPT ![p] = EnterSegment(@, @.seg + 1)]
  /\ UNCHANGED <<componentMap, cedictData>>

\* the characters of the segment are done and skipSave: the next segment
HandleLookupSkipSave(p) ==
  /\ frames[p].pc = "hl"
  /\ frames[p].seg <= Len(frames[p].segments)
  /\ frames[p].ch > Len(frames[p].segments[frames[p].seg].characters)
  /\ ~ShouldSave(frames[p].skipSave)
  /\ frames' = [frames EXCEPT ![p] = EnterSegment(@, @.seg + 1)]
  /\ UNCHANGED <<storeVars, componentMap, cedictData>>

\* the segments are done: result.seenWith = seenWith
HandleLookupEnd(p) ==
  /\ frames[p].pc = "hl"
  /\ frames[p].seg > Len(frames[p].segments)
  /\ frames' = [frames EXCEPT ![p].pc = "hlDone"]
  /\ UNCHANGED <<storeVars, componentMap, cedictData>>

\* handleLookup returns result
HandleLookupReturn(p) ==
  /\ frames[p].pc = "hlDone"
  /\ frames' = [frames EXCEPT ![p] = Idle]
  /\ UNCHANGED <<storeVars, componentMap, cedictData>>

(***************************************************************************)
(* LookupSpec: lookups on device A, one at a time, with and without        *)
(* skipSave and context.  cedict.json holds the first two of CedictLines,  *)
(* so the two-character text is two segments of the same word; any load    *)
(* may fail.  The lookups and the saves they make are the calls MaxCalls   *)
(* bounds.                                                                 *)
(***************************************************************************)
LookupFiles == { BuildCedict(SubSeq(CedictLines, 1, 2), EmptyMap) }

LookupTexts ==
  { <<>>, <<"sp", "uF900">>, <<"u5988">>, <<"u5ABD">>, <<"u5988", "u5988">>,
    <<"u8C48", "a", "u5976">> }

LookupContexts == { <<<<>>, <<>>>>, <<<<Sentence(1)>>, <<>>>> }

\* context, sourceUrl and skipSave of a LOOKUP message: skipSave absent with either
\* context, true or false with no context
LookupOptions ==
  { <<c[1], c[2], <<>>>> : c \in LookupContexts }
    \cup { << <<>>, <<>>, skipSave >> : skipSave \in {<<TRUE>>, <<FALSE>>} }

LookupNext ==
  \/ \E p \in Procs, text \in LookupTexts, o \in LookupOptions :
       HandleLookupCall(p, "A", text, o[1], o[2], o[3])
  \/ \E p \in Procs : LoadCedictStep(p, LookupFiles)
  \/ \E p \in Procs : LookupWordStep(p, LookupFiles)
  \/ \E p \in Procs : SegmentLoopStep(p)
  \/ \E p \in Procs : SegmentLoopEnd(p)
  \/ \E p \in Procs : PerformLookupSegments(p)
  \/ \E p \in Procs : HandleLookupResume(p)
  \/ \E p \in Procs : HandleLookupUpdateCall(p)
  \/ \E p \in Procs : UpdateComponentMapGet(p)
  \/ \E p \in Procs : UpdateComponentMapPut(p)
  \/ \E p \in Procs : HandleLookupSeenWith(p)
  \/ \E p \in Procs : HandleLookupSaveCall(p)
  \/ \E p \in Procs : HandleLookupSaveStep(p)
  \/ \E p \in Procs : HandleLookupSaveReturn(p)
  \/ \E p \in Procs : HandleLookupSkipSave(p)
  \/ \E p \in Procs : HandleLookupEnd(p)
  \/ \E p \in Procs : HandleLookupReturn(p)

LookupSpec == Init /\ [][LookupNext]_vars

LookupEnded(p) == frames[p].pc = "hlDone"

\* the vocabulary key of a segment
SegmentKey(segment) == NFC(TextRuns(segment.word))

\* the number of segments of a lookup saved under key k
SegmentsUnder(segments, k) ==
  Cardinality({i \in DOMAIN segments : SegmentKey(segments[i]) = k})

LookupCountIn(vocabulary, k) ==
  IF k \in DOMAIN vocabulary THEN vocabulary[k].lookupCount ELSE 0

\* C14: when a lookup ends, every character of every segment is in the component
\* index under its radical and under each of its components; with skipSave true the
\* vocabulary stores, the replica and the count of saves are as they were when the
\* lookup began; otherwise saveVocabularyEntry returned once for every segment,
\* lookupCount rose by the number of segments of the word, and no other key changed
C14_SkipSaveLeavesStore ==
  \A p \in Procs :
    LookupEnded(p) =>
      LET f == frames[p] IN
      /\ \A i \in DOMAIN f.segments :
           \A j \in DOMAIN f.segments[i].characters :
             LET charInfo == f.segments[i].characters[j] IN
             /\ charInfo.radical # "" =>
                  Includes(Recorded(f.dev, charInfo.radical), charInfo.character)
             /\ "components" \in DOMAIN charInfo =>
                  \A n \in DOMAIN charInfo.components :
                    Includes(Recorded(f.dev, charInfo.components[n]),
                             charInfo.character)
      /\ f.skipSave = <<TRUE>> =>
           /\ store = f.store0
           /\ replica = f.replica0
           /\ nSaved = f.nSaved0
      /\ f.skipSave # <<TRUE>> =>
           /\ store[Other(f.dev)] = f.store0[Other(f.dev)]
           /\ \A k \in DOMAIN store[f.dev] \cup DOMAIN f.store0[f.dev] :
                /\ k \in DOMAIN store[f.dev]
                /\ store[f.dev][k].lookupCount =
                     LookupCountIn(f.store0[f.dev], k) + SegmentsUnder(f.segments, k)
                /\ Count(nSaved[f.dev], k) =
                     Count(f.nSaved0[f.dev], k) + SegmentsUnder(f.segments, k)
                /\ SegmentsUnder(f.segments, k) = 0 =>
                     store[f.dev][k] = f.store0[f.dev][k]
           /\ \A i \in DOMAIN f.segments : SegmentKey(f.segments[i]) \in DOMAIN store[f.dev]

\* a lookup with skipSave true of a word that is in the store ended: its character
\* went into the component index under a radical and a component
C14_Witness ==
  \E p \in Procs :
    LET f == frames[p] IN
    /\ LookupEnded(p)
    /\ f.skipSave = <<TRUE>>
    /\ f.store0[f.dev] # EmptyMap
    /\ Len(f.segments) > 0
    /\ SegmentKey(f.segments[1]) \in DOMAIN f.store0[f.dev]
    /\ Len(f.segments[1].characters) > 0
    /\ "components" \in DOMAIN f.segments[1].characters[1]
    /\ componentMap[f.dev] # EmptyMap

\* C17: no call of lookupWithSegmentation raises; its loop moves pos forward in
\* every iteration and never past the end of the normalized text, so it ends; a text
\* that normalizes to the empty string gives no entry and no segment, and a lookup
\* of it leaves the vocabulary stores and the replica as they were
C17_SegmentationTotal ==
  /\ [](\A p \in Procs :
          LET f == frames[p] IN
          /\ f.pc # "raised"
          /\ f.pc = "segLoop" => f.pos <= Len(f.normalized)
          /\ (f.pc \in {"segDone", "plDone", "hl", "hlDone"}
                /\ normalizeText(f.text) = <<>>) =>
               (f.results = <<>> /\ f.segments = <<>>)
          /\ (f.pc = "hlDone" /\ normalizeText(f.text) = <<>>) =>
               (store = f.store0 /\ replica = f.replica0 /\ nSaved = f.nSaved0))
  /\ [][\A p \in Procs :
          (frames[p].pc = "segLoop" /\ frames'[p].pc = "segLoop") =>
            frames'[p].pos > frames[p].pos]_vars

\* a lookup that would save, of a text that is not empty and normalizes to the empty
\* string, ended after loadCedict failed
C17_Witness ==
  \E p \in Procs :
    LET f == frames[p] IN
    /\ f.pc = "hlDone"
    /\ f.text # <<>>
    /\ normalizeText(f.text) = <<>>
    /\ f.skipSave # <<TRUE>>
    /\ f.context # <<>>
    /\ cedictData = <<>>

(***************************************************************************)
(* Properties of the store as a whole.                                     *)
(***************************************************************************)
\* C22: every entry of every store has lastSeenAt >= firstSeenAt
C22_LastSeenNotBeforeFirstSeen ==
  \A d \in Devices : \A k \in DOMAIN store[d] :
    store[d][k].lastSeenAt >= store[d][k].firstSeenAt

\* C23: every entry is stored under its id, and its id is the NFC form of its word;
\* no step removes an entry or changes the id or the word of an entry
C23_IdIsNormalizedWord ==
  /\ [](\A d \in Devices : \A k \in DOMAIN store[d] :
          /\ store[d][k].id = k
          /\ store[d][k].id = NFC(store[d][k].word))
  /\ [][\A d \in Devices : \A k \in DOMAIN store[d] :
          /\ k \in DOMAIN store'[d]
          /\ store'[d][k].id = store[d][k].id
          /\ store'[d][k].word = store[d][k].word]_vars

\* a stub that syncFromChrome made of the other device's record of a word saved in
\* its compatibility form, and then a save of the canonical form on top of it
C23_Witness ==
  /\ AllIdle
  /\ W1 \in DOMAIN store["A"] /\ W1 \in DOMAIN store["B"]
  /\ store["B"][W1].word = W1c
  /\ store["A"][W1].word = W1c
  /\ store["A"][W1].characters # <<>>
  /\ passes["A"] # <<>>
  /\ Saved("A", W1) > 0

\* C25: whenever no call is in flight, every key a save of which returned has an
\* entry in the device's store and a record in the replica
C25_DisjointSavesBothKept ==
  AllIdle =>
    \A d \in Devices : \A k \in DOMAIN nSaved[d] :
      /\ k \in DOMAIN store[d]
      /\ k \in DOMAIN replica

\* C26: no step takes a character out of a component's list, except the first of a
\* full list when a new character is appended to it
C26_ComponentListKeepsCharacters ==
  [][\A d \in Devices : \A component \in DOMAIN componentMap[d] :
       LET old == componentMap[d][component]
           new == IF component \in DOMAIN componentMap'[d]
                  THEN componentMap'[d][component] ELSE <<>>
       IN \A i \in DOMAIN old :
            \/ Includes(new, old[i])
            \/ /\ i = 1
               /\ Len(old) = MAX_COMPONENT_CHARS
               /\ Len(new) = MAX_COMPONENT_CHARS
               /\ \A j \in 2..Len(old) : new[j - 1] = old[j]]_vars

\* C29: when a syncFromChrome pass ends, an entry that an earlier pass of the device
\* made of the same replica contents, and that is as that pass left it, is unchanged;
\* and an entry of the device's own saves, whose record in the replica is the one
\* its syncToChrome wrote, keeps the lookupCount of its saves
C29_InboundSyncIdempotent ==
  \A p \in Procs :
    PassEnded(p) =>
      LET c == calls[p]
          d == c.dev
      IN \A k \in DOMAIN c.syncedData :
           /\ (/\ k \in DOMAIN c.store0
               /\ c.store0[k] = StubEntry(k, c.syncedData[k])
               /\ \E i \in DOMAIN passes[d] :
                    /\ passes[d][i].data = c.syncedData
                    /\ k \notin passes[d][i].had)
              => store[d][k] = c.store0[k]
           /\ (/\ k \in DOMAIN c.store0
               /\ passes[d] = <<>>
               /\ c.syncedData = OutboundData(EmptyMap, c.store0[k])
               /\ c.store0[k].lookupCount = Saved(d, k))
              => store[d][k].lookupCount = Saved(d, k)

\* the lengths n <= min(6, remaining) for which the n characters of normalized after
\* pos are a headword of cedict
HeadwordLengths(cedict, normalized, pos) ==
  { n \in 1..Min(MAX_PROBE_LENGTH, Len(normalized) - pos) :
      /\ SubSeq(normalized, pos + 1, pos + n) \in DOMAIN cedict
      /\ cedict[SubSeq(normalized, pos + 1, pos + n)] # <<>> }

\* C24: every iteration of the scan at pos emits the entry of the longest headword
\* of at most min(6, remaining) characters that starts at pos and moves pos past
\* it; if there is none it moves pos by one and emits, for a Han character, the
\* placeholder with the one definition '(no definition found)', and for any
\* other character nothing.  No emitted entry is empty.
C24_GreedyLongestMatch ==
  /\ [](\A p \in Procs :
          frames[p].pc \in {"segLoop", "segDone"} =>
            \A i \in DOMAIN frames[p].results :
              /\ frames[p].results[i].simplified # <<>>
              /\ frames[p].results[i].traditional # <<>>)
  /\ [][\A p \in Procs :
          (/\ frames[p].pc = "segLoop"
           /\ frames'[p].pc = "segLoop"
           /\ frames'[p] # frames[p]) =>
            LET f == frames[p]
                g == frames'[p]
                lengths == HeadwordLengths(f.cedict, f.normalized, f.pos)
                char == f.normalized[f.pos + 1]
            IN IF lengths # {}
               THEN LET n == CHOOSE m \in lengths : \A l \in lengths : l <= m
                        span == SubSeq(f.normalized, f.pos + 1, f.pos + n)
                    IN /\ g.pos = f.pos + n
                       /\ Len(g.results) = Len(f.results) + 1
                       /\ SubSeq(g.results, 1, Len(f.results)) = f.results
                       /\ span \in {g.results[Len(g.results)].simplified,
                                    g.results[Len(g.results)].traditional}
                       /\ g.results[Len(g.results)] = DictionaryEntryOf(f.cedict[span])
               ELSE /\ g.pos = f.pos + 1
                    /\ char \in HanRange =>
                         g.results = Append(f.results,
                           [traditional |-> <<char>>, simplified |-> <<char>>,
                            pinyin |-> <<>>, pinyinTones |-> <<>>,
                            definitions |-> << <<"(no", "definition", "found)">> >>])
                    /\ char \notin HanRange => g.results = f.results]_vars

\* the scan emitted a two-character headword whose first character is a headword
\* too, in a longer text that is no headword as a whole
C24_Witness ==
  \E p \in Procs :
    LET f == frames[p] IN
    /\ f.pc = "segLoop"
    /\ f.pos = 2
    /\ Len(f.normalized) > 2
    /\ Len(f.results) = 1
    /\ Len(f.results[1].simplified) = 2
    /\ SubSeq(f.normalized, 1, 1) \in DOMAIN f.cedict
    /\ f.cedict[SubSeq(f.normalized, 1, 1)] # <<>>

\* C30: the isKnown of every segment of a lookup result is true exactly when the
\* store, as it was when the lookup began, held an entry of the segment's word with
\* lookupCount > 1, which is exactly when the word had been saved at least twice
\* before; the saves of the lookup itself leave the isKnown of its result as it was.
C30_IsKnownBeforeOwnSave ==
  /\ \A p \in Procs :
       ("segments" \in DOMAIN frames[p] /\ frames[p].op = "lookup") =>
         \A i \in DOMAIN frames[p].segments :
           LET f == frames[p]
               k == SegmentKey(f.segments[i])
           IN /\ f.segments[i].isKnown = (LookupCountIn(f.store0[f.dev], k) > 1)
              /\ f.segments[i].isKnown = (Count(f.nSaved0[f.dev], k) >= 2)
  /\ \A p \in Procs :
       ("segments" \in DOMAIN frames[p] /\ frames[p].op = "perform") =>
         \A i \in DOMAIN frames[p].segments : ~frames[p].segments[i].isKnown

\* a lookup of a word saved twice before has ended and reports the word as known
C30_Witness ==
  \E p \in Procs :
    /\ LookupEnded(p)
    /\ frames[p].segments # <<>>
    /\ frames[p].segments[1].isKnown
    /\ Saved(frames[p].dev, SegmentKey(frames[p].segments[1])) >= 2

\* a lookup that saved its word for the second time has ended and reports the
\* word as not known
OwnSaveNotCounted ==
  \E p \in Procs :
    /\ LookupEnded(p)
    /\ frames[p].segments # <<>>
    /\ ~frames[p].segments[1].isKnown
    /\ LookupCountIn(store[frames[p].dev], SegmentKey(frames[p].segments[1])) > 1

(***************************************************************************)
(* StartupSpec: the service worker of device A starts.  The store and the  *)
(* replica hold what an earlier run of this device and a save of another   *)
(* device left; the onStartup (or onInstalled) listener runs               *)
(* preloadDictionaries and then syncFromChrome, and LOOKUP messages arrive *)
(* at any time: the onMessage listener is registered beside it and each    *)
(* message runs handleLookup, whose saveVocabularyEntry calls interleave    *)
(* with the listener at their awaits.  frames[p] holds the listener's      *)
(* position, calls its syncFromChrome pass and the saves.                   *)
(***************************************************************************)
StartupLookups ==
  { Lookup(W1, <<DefShort>>, <<>>, <<>>), Lookup(W2, <<>>, <<>>, <<>>) }

\* what another device's save of W1 left in the replica, and what an earlier save
\* of W2 on this device left in its store and in the replica
StartupReplica ==
  OutboundData(
    OutboundData(EmptyMap,
      CreatedEntry(generateWordId(W1), W1, Pinyin, <<DefShort>>, <<>>, <<>>, 1)),
    CreatedEntry(generateWordId(W2), W2, Pinyin, <<>>, <<>>, <<>>, 1))

StartupInit ==
  /\ store = [d \in Devices |->
                IF d = "A"
                THEN Put(EmptyMap, generateWordId(W2),
                         CreatedEntry(generateWordId(W2), W2, Pinyin, <<>>, <<>>, <<>>, 1))
                ELSE Put(EmptyMap, generateWordId(W1),
                         CreatedEntry(generateWordId(W1), W1, Pinyin, <<DefShort>>,
                                      <<>>, <<>>, 1))]
  /\ replica = StartupReplica
  /\ nSaved = [d \in Devices |->
                 IF d = "A" THEN Put(EmptyMap, NFC(W2), 1) ELSE Put(EmptyMap, NFC(W1), 1)]
  /\ idbq = [d \in Devices |-> <<>>]
  /\ clock = 1
  /\ calls = [p \in Procs |-> Idle]
  /\ nCalls = 0
  /\ passes = [d \in Devices |-> <<>>]
  /\ LookupInit

\* the onStartup listener is called: preloadDictionaries begins
OnStartup(p) ==
  /\ p = 1
  /\ FrameIdle(p)
  /\ frames' = [frames EXCEPT ![p] = [pc |-> "preload", op |-> "startup", dev |-> "A"]]
  /\ UNCHANGED <<storeVars, componentMap, cedictData>>

\* preloadDictionaries has resolved: syncFromChrome is called, in slot q of calls
OnStartupSync(p, q) ==
  /\ frames[p].pc = "preload"
  /\ SyncFromCall(MaxInFlight, q, frames[p].dev)
  /\ frames' = [frames EXCEPT ![p].pc = "syncFromChrome"]
  /\ UNCHANGED <<componentMap, cedictData>>

\* syncFromChrome returns and the listener ends
OnStartupEnd(p, q) ==
  /\ frames[p].pc = "syncFromChrome"
  /\ calls[q].pc # "idle"
  /\ calls[q].op = "syncFrom"
  /\ SyncFromReturn(q)
  /\ frames' = [frames EXCEPT ![p].pc = "started"]
  /\ UNCHANGED <<componentMap, cedictData>>

StartupNext ==
  \/ \E p \in Procs : OnStartup(p)
  \/ \E p, q \in Procs : OnStartupSync(p, q)
  \/ \E p, q \in Procs : OnStartupEnd(p, q)
  \/ \E p \in Procs, lk \in StartupLookups :
       /\ nCalls < MaxStartupCalls
       /\ SaveCall(MaxInFlight, p, "A", lk)
       /\ UNCHANGED lookupVars
  \/ \E p \in Procs :
       /\ SaveSteps(p) \/ SyncFromDbGet(p) \/ SyncFromDbPut(p)
       /\ UNCHANGED lookupVars

StartupSpec == StartupInit /\ [][StartupNext]_vars

\* the listener's syncFromChrome pass has begun and has not returned
StartupPassInFlight ==
  \E p \in Procs : frames[p].pc = "syncFromChrome"

\* C21: while the syncFromChrome pass of the onStartup or onInstalled listener is
\* in flight, no saveVocabularyEntry call of a LOOKUP message reads or writes the
\* vocabulary store: none of its db.get or db.put requests is carried out.
C21_SyncBeforeLookups ==
  [][StartupPassInFlight =>
       \A p \in Procs :
         (calls[p].pc \in {"dbGet", "dbPut"} /\ calls[p].op = "save")
           => calls'[p] = calls[p]]_vars

(***************************************************************************)
(* FailSpec: the calls of device A, one at a time, from the state of       *)
(* StartupInit, where any await of syncFromChrome may reject: the          *)
(* chrome.storage.sync.get (sync unavailable), a db.get or a db.put.  The  *)
(* catch of syncFromChrome takes the rejection.                            *)
(***************************************************************************)
\* syncFromChrome is called and chrome.storage.sync.get (or getDB) rejects
SyncFromCallFail(lim, p, d) ==
  /\ FreeSlot(lim, p)
  /\ calls' = [calls EXCEPT ![p] =
       [pc |-> "sfFailed", op |-> "syncFrom", dev |-> d, syncedData |-> EmptyMap,
        todo |-> {}, cur |-> <<>>, store0 |-> store[d]]]
  /\ nCalls' = nCalls + 1
  /\ UNCHANGED <<store, idbq, replica, clock, nSaved, passes>>

\* the db.get or the db.put the loop awaits rejects: the catch is entered and the
\* records not yet taken are left
SyncFromFail(p) ==
  /\ calls[p].pc \in {"sfLoop", "sfPut"}
  /\ calls[p].pc = "sfLoop" => calls[p].todo # {}
  /\ Head(idbq[calls[p].dev]) = p
  /\ idbq' = [idbq EXCEPT ![calls[p].dev] = Tail(@)]
  /\ calls' = [calls EXCEPT ![p].pc = "sfFailed", ![p].cur = <<>>]
  /\ UNCHANGED <<store, replica, clock, nCalls, nSaved, passes>>

\* console.warn, and syncFromChrome returns
SyncFromFailReturn(p) ==
  /\ calls[p].pc = "sfFailed"
  /\ calls' = [calls EXCEPT ![p] = Idle]
  /\ UNCHANGED <<idbq, store, replica, clock, nCalls, nSaved, passes>>

FailNext ==
  \/ \E p \in Procs, lk \in StartupLookups :
       /\ nCalls < MaxFailCalls
       /\ SaveCall(1, p, "A", lk)
       /\ UNCHANGED lookupVars
  \/ \E p \in Procs :
       /\ nCalls < MaxFailCalls
       /\ SyncFromCall(1, p, "A")
       /\ UNCHANGED lookupVars
  \/ \E p \in Procs :
       /\ nCalls < MaxFailCalls
       /\ SyncFromCallFail(1, p, "A")
       /\ UNCHANGED lookupVars
  \/ \E p \in Procs :
       /\ SyncFromFail(p)
       /\ UNCHANGED lookupVars
  \/ \E p \in Procs :
       /\ SyncFromFailReturn(p)
       /\ UNCHANGED lookupVars
  \/ \E p \in Procs :
       /\ Steps(p)
       /\ UNCHANGED lookupVars

FailSpec == StartupInit /\ [][FailNext]_vars

\* C27: when a syncFromChrome pass has failed, the device's vocabulary store is
\* what it was when the pass began: no record of the replica has been merged.
C27_FailedSyncLeavesStore ==
  \A p \in Procs :
    calls[p].pc = "sfFailed" => store[calls[p].dev] = calls[p].store0

\* a pass whose chrome.storage.sync.get rejected has failed
FailedBeforeFirstRecord ==
  \A p \in Procs :
    (calls[p].pc = "sfFailed" /\ calls[p].syncedData = EmptyMap)
      => store[calls[p].dev] = calls[p].store0

(***************************************************************************)
(* PreloadSpec: the loadCedict calls of one service worker process, step   *)
(* by step: the call tests cedictData and, if it is null, issues the fetch *)
(* and waits; the fetch and response.json resolve or reject later.  Slot p *)
(* of frames is a caller (preloadDictionaries from the onStartup listener, *)
(* or lookupWithSegmentation and lookupWord of a LOOKUP message); after    *)
(* the call has returned its frame keeps what it returned (value) and      *)
(* whether it fetched, until the caller calls again.  loadUnihan,          *)
(* loadRadicals and loadHsk have the same code over their own caches.      *)
(***************************************************************************)
Callers == {"preloadDictionaries", "lookupWithSegmentation", "lookupWord"}

\* loadCedict is called: if (cedictData) return cedictData; else fetch is issued
LoadCedictCall(p, caller) ==
  /\ frames[p].pc \in {"idle", "loaded"}
  /\ frames' = [frames EXCEPT ![p] =
       IF cedictData # <<>>
       THEN [pc |-> "loaded", op |-> caller, fetched |-> FALSE, raised |-> FALSE,
             value |-> loadCedict(cedictData, <<>>).value]
       ELSE [pc |-> "fetching", op |-> caller, fetched |-> TRUE, raised |-> FALSE,
             value |-> EmptyMap]]
  /\ UNCHANGED <<storeVars, componentMap, cedictData>>

\* fetch and response.json resolve and cedictData is assigned, or one of them
\* rejects and the catch returns {}
LoadCedictResolve(p, files) ==
  /\ frames[p].pc = "fetching"
  /\ \E fetched \in Fetched(files) :
       LET loaded == loadCedict(<<>>, fetched) IN
         /\ cedictData' = IF fetched # <<>> THEN loaded.cache ELSE cedictData
         /\ frames' = [frames EXCEPT ![p].pc = "loaded",
                                     ![p].raised = loaded.raised,
                                     ![p].value = loaded.value]
  /\ UNCHANGED <<storeVars, componentMap>>

PreloadNext ==
  \/ \E p \in Procs, caller \in Callers : LoadCedictCall(p, caller)
  \/ \E p \in Procs : LoadCedictResolve(p, LookupFiles)

PreloadSpec == Init /\ [][PreloadNext]_vars

\* no call raises
LoadNeverRaises ==
  \A p \in Procs : frames[p].pc = "loaded" => ~frames[p].raised

\* the calls that have returned hold the same index
SameIndex ==
  \A p, q \in Procs :
    (frames[p].pc = "loaded" /\ frames[q].pc = "loaded")
      => frames[p].value = frames[q].value

\* calls that return an index other than {} hold the same index
SameIndexOnceLoaded ==
  \A p, q \in Procs :
    (/\ frames[p].pc = "loaded" /\ frames[q].pc = "loaded"
     /\ frames[p].value # EmptyMap /\ frames[q].value # EmptyMap)
      => frames[p].value = frames[q].value

\* a fetch is issued only when no call has issued one
FetchedOnce ==
  [][\A p \in Procs :
       (frames[p].pc # "fetching" /\ frames'[p].pc = "fetching")
         => \A q \in Procs :
              frames[q].pc \in {"fetching", "loaded"} => ~frames[q].fetched]_vars

\* a fetch is issued only when no fetch has succeeded
FetchedOnceSucceeded ==
  [][\A p \in Procs :
       (frames[p].pc # "fetching" /\ frames'[p].pc = "fetching")
         => \A q \in Procs :
              (frames[q].pc = "loaded" /\ frames[q].fetched)
                => frames[q].value = EmptyMap]_vars

\* C28: cedict.json is fetched at most once in the process (a call issues a fetch
\* only when no call has issued one), every call that has returned holds the same
\* index as every other, and no call raises.
C28_LoadedOnce ==
  /\ [](SameIndex /\ LoadNeverRaises)
  /\ FetchedOnce
====
